---- MODULE Spec2Model ----
(***************************************************************************)
(* A model of the resume search bot: the /search handler of                *)
(* TelegramResumeBot, the scraping adapter (WorkUaParser), the API adapter *)
(* (RobotaUaParser), the fuzzy vocabulary matcher and the ranking of the   *)
(* merged results.                                                         *)
(*                                                                         *)
(* Specifications:                                                         *)
(*   Spec       one /search, from the handler's entry to the message sent  *)
(*              or the exception raised, one step per HTTP response        *)
(*   SpecRank   the ranking step of the /search handler on arbitrary       *)
(*              bounded adapter result lists                               *)
(*   SpecQuery  the translation of a query into the filter of each         *)
(*              adapter, on bounded queries                                *)
(*   SpecConstruct  the construction of the API adapter and of the bot,    *)
(*              one step per HTTP response                                 *)
(*   SpecDocuments  the API adapter's unpacking of a response whose        *)
(*              documents lack optional fields                             *)
(*   SpecParse  the scraping adapter's parse of a detail page              *)
(*   SpecMatch  the fuzzy matcher on bounded terms and vocabularies        *)
(*   SpecRegion the region of a query through the matcher and through the  *)
(*              filter of each adapter                                     *)
(*   SpecScore  the filling percentage of a text                           *)
(*   SpecSession  the command handlers of two chats up to the first        *)
(*              request of a /search                                       *)
(*   SpecDialogue  the same with the salary and experience keyboards: one  *)
(*              chat sends every command, text and button press, the       *)
(*              other opens and closes its session                         *)
(***************************************************************************)
EXTENDS Integers, Sequences, FiniteSets, TLC

VARIABLES
    pc,                 \* position of the /search handler
    chat_id,            \* update.effective_chat.id of the update being handled
    user_data,          \* TelegramResumeBot.__user_data: chat -> session
    params,             \* the SearchOptions handed to the adapters
    error,              \* the exception that left the handler, "" if none
    inflight,           \* the HTTP request waiting for its response, or None
    http_log,           \* the HTTP exchanges completed so far, in order
    payload,            \* WorkUaParser: the payload dict of get_resume_pages
    total_candidates,   \* WorkUaParser: total_candidates of get_resume_pages
    total_pages,        \* WorkUaParser: total_pages of get_resume_pages
    html_pages,         \* WorkUaParser: html_pages / page_htmls
    hrefs,              \* WorkUaParser: hrefs of search_resumes
    resume_htmls,       \* WorkUaParser: resume_htmls of search_resumes
    origin,             \* for each record of the scraping adapter, the href
                        \* of the detail page its content was parsed from
    work_outcome,       \* "pending", "returned" or "raised"
    work_ua_results,    \* list returned by WorkUaParser.search_resumes
    robota_payload,     \* RobotaUaParser: the payload dict of search_resumes
    robota_outcome,     \* "pending", "returned" or "raised"
    robota_ua_results,  \* value returned by RobotaUaParser.search_resumes
    combined_results,   \* combined_results of the /search handler
    top_resumes,        \* top_resumes of the /search handler
    sent,               \* the last message sent or edited, or NoMessage
    constructing,       \* main: self of the __init__ that is running, or None
    robota_ua_parser,   \* main: robota_ua_parser, None before it is assigned
    bot,                \* main: bot, None before it is assigned
    args,               \* the arguments of a function applied on its own
    outcome,            \* what that function returned or raised, or None
    keyboards           \* chat -> the inline keyboards on display in the
                        \* chat, by what their buttons send

vars == <<pc, chat_id, user_data, params, error, inflight, http_log, payload,
          total_candidates, total_pages, html_pages, hrefs, resume_htmls,
          origin, work_outcome, work_ua_results, robota_payload,
          robota_outcome, robota_ua_results, combined_results, top_resumes,
          sent, constructing, robota_ua_parser, bot, args, outcome,
          keyboards>>

(***************************************************************************)
(* Bounds of the model.                                                    *)
(***************************************************************************)
MaxWorkResults == 3     \* SpecRank: longest list of the scraping adapter
MaxRobotaResults == 3   \* SpecRank: longest list of the API adapter
MaxPages == 4           \* Spec: most listing pages the site reports
MaxLinks == 3           \* Spec: most result cards over all listing pages
MaxDocuments == 2       \* Spec: most documents in an API response
MaxTags == 2            \* SpecQuery: most experience tags of a query

(***************************************************************************)
(* Generic helpers on sequences.                                           *)
(***************************************************************************)
Reverse(s) == [i \in 1..Len(s) |-> s[Len(s) + 1 - i]]

Min(a, b) == IF a <= b THEN a ELSE b

SeqsUpTo(S, n) == UNION {[1..k -> S] : k \in 0..n}

\* number of positions of s holding x
Count(s, x) == Cardinality({i \in 1..Len(s) : s[i] = x})

(***************************************************************************)
(* models.Resume and its ordering.                                         *)
(***************************************************************************)
\* Resume.__lt__: only the filling percentage is compared
ResumeLt(a, b) == a.filling_percentage < b.filling_percentage

\* list.sort() of CPython on a short list: a stable insertion sort that
\* uses only __lt__; x is placed after every element it is not less than.
RECURSIVE InsertSorted(_, _)
InsertSorted(s, x) ==
    IF s = <<>> THEN <<x>>
    ELSE IF ResumeLt(x, s[Len(s)])
         THEN Append(InsertSorted(SubSeq(s, 1, Len(s) - 1), x), s[Len(s)])
         ELSE Append(s, x)

RECURSIVE SortAscending(_)
SortAscending(s) ==
    IF s = <<>> THEN <<>>
    ELSE InsertSorted(SortAscending(SubSeq(s, 1, Len(s) - 1)), s[Len(s)])

\* a sort that reverses the result of the ascending sort: equal records end
\* up in the reverse of their input order
SortThenReverse(s) == Reverse(SortAscending(s))

\* list.sort(reverse=True): the list is reversed, sorted and reversed again,
\* which keeps the sort stable
SortReverse(s) == Reverse(SortAscending(Reverse(s)))

TOP_N == 5

\* a slice that keeps one record too few
TakeOneLess(s, n) == SubSeq(s, 1, Min(n - 1, Len(s)))

\* s[:n] for n >= 0
Take(s, n) == SubSeq(s, 1, Min(n, Len(s)))

(***************************************************************************)
(* Python values that may be None or of more than one type are tagged.     *)
(***************************************************************************)
None == [type |-> "NoneType"]
IntV(n) == [type |-> "int", val |-> n]
StrV(s) == [type |-> "str", val |-> s]
ListV(l) == [type |-> "list", val |-> l]

Digits == <<"0", "1", "2", "3", "4", "5", "6", "7", "8", "9">>

\* str(n) for an integer n >= 0
RECURSIVE Str(_)
Str(n) == IF n < 10 THEN Digits[n + 1] ELSE Str(n \div 10) \o Digits[(n % 10) + 1]

(***************************************************************************)
(* utils.get_most_similar_word.  A term and a vocabulary entry are         *)
(* sequences of characters; Alphabet lists the characters in code point    *)
(* order.                                                                  *)
(***************************************************************************)
Alphabet == <<" ", "K", "L", "Z", "i", "v", "y", "z">>
Code(c) == CHOOSE i \in 1..Len(Alphabet) : Alphabet[i] = c

\* str.__lt__: lexicographic by code point
RECURSIVE StrLt(_, _)
StrLt(a, b) ==
    IF b = <<>> THEN FALSE
    ELSE IF a = <<>> THEN TRUE
    ELSE IF Code(Head(a)) # Code(Head(b)) THEN Code(Head(a)) < Code(Head(b))
    ELSE StrLt(Tail(a), Tail(b))

\* str.split(): the maximal runs of non-blank characters
RECURSIVE SplitFrom(_, _, _)
SplitFrom(s, i, cur) ==
    IF i > Len(s) THEN (IF cur = <<>> THEN <<>> ELSE <<cur>>)
    ELSE IF s[i] = " "
         THEN (IF cur = <<>> THEN <<>> ELSE <<cur>>) \o SplitFrom(s, i + 1, <<>>)
         ELSE SplitFrom(s, i + 1, Append(cur, s[i]))
Split(s) == SplitFrom(s, 1, <<>>)

RECURSIVE InsertToken(_, _)
InsertToken(ts, t) ==
    IF ts = <<>> THEN <<t>>
    ELSE IF StrLt(t, ts[Len(ts)])
         THEN Append(InsertToken(SubSeq(ts, 1, Len(ts) - 1), t), ts[Len(ts)])
         ELSE Append(ts, t)

RECURSIVE SortedTokens(_)
SortedTokens(ts) ==
    IF ts = <<>> THEN <<>>
    ELSE InsertToken(SortedTokens(SubSeq(ts, 1, Len(ts) - 1)), ts[Len(ts)])

\* " ".join(tokens)
RECURSIVE JoinBlank(_)
JoinBlank(ts) ==
    IF ts = <<>> THEN <<>>
    ELSE IF Len(ts) = 1 THEN ts[1]
    ELSE ts[1] \o <<" ">> \o JoinBlank(Tail(ts))

\* length of a longest common subsequence
RECURSIVE LCS(_, _)
LCS(a, b) ==
    IF a = <<>> \/ b = <<>> THEN 0
    ELSE IF Head(a) = Head(b) THEN 1 + LCS(Tail(a), Tail(b))
    ELSE LET x == LCS(Tail(a), b)
             y == LCS(a, Tail(b))
         IN  IF x >= y THEN x ELSE y

\* fuzz.token_sort_ratio as the fraction num/den of 100: the normalised
\* Indel similarity 2*LCS/(len1+len2) of the two strings after their tokens
\* are sorted and joined; two empty strings are equal (100)
TokenSortRatio(s1, s2) ==
    LET a == JoinBlank(SortedTokens(Split(s1)))
        b == JoinBlank(SortedTokens(Split(s2)))
    IN  IF Len(a) + Len(b) = 0 THEN [num |-> 100, den |-> 1]
        ELSE [num |-> 200 * LCS(a, b), den |-> Len(a) + Len(b)]

ScoreGt(x, y) == x.num * y.den > y.num * x.den

\* process.extractOne without a cutoff: the first entry with the highest
\* score, None for an absent query or an empty vocabulary
RECURSIVE BestIndex(_, _, _, _)
BestIndex(word, vocabulary, i, best) ==
    IF i > Len(vocabulary) THEN best
    ELSE IF best = 0
            \/ ScoreGt(TokenSortRatio(word, vocabulary[i]),
                       TokenSortRatio(word, vocabulary[best]))
         THEN BestIndex(word, vocabulary, i + 1, i)
         ELSE BestIndex(word, vocabulary, i + 1, best)

WORD_SIMILARITY_THRESHOLD == 70

\* a matcher that returns the best entry whatever its score
GetMostSimilarWordAnyScore(word, vocabulary) ==
    IF word = None THEN None
    ELSE LET best == BestIndex(word.val, vocabulary, 1, 0)
         IN  IF best # 0 THEN StrV(vocabulary[best]) ELSE None

\* a matcher that accepts a best score equal to the threshold and above
GetMostSimilarWordAtLeast(word, vocabulary) ==
    IF word = None THEN None
    ELSE LET best == BestIndex(word.val, vocabulary, 1, 0)
         IN  IF best # 0
                /\ ~ScoreGt([num |-> WORD_SIMILARITY_THRESHOLD, den |-> 1],
                            TokenSortRatio(word.val, vocabulary[best]))
             THEN StrV(vocabulary[best])
             ELSE None

\* get_most_similar_word: the best entry if its score is above the
\* threshold, otherwise None (the function ends without a return)
GetMostSimilarWord(word, vocabulary) ==
    IF word = None THEN None
    ELSE LET best == BestIndex(word.val, vocabulary, 1, 0)
         IN  IF best # 0
                /\ ScoreGt(TokenSortRatio(word.val, vocabulary[best]),
                           [num |-> WORD_SIMILARITY_THRESHOLD, den |-> 1])
             THEN StrV(vocabulary[best])
             ELSE None

(***************************************************************************)
(* The vocabularies the adapters load at construction (JSON files): the    *)
(* keys in file order and the identifier of each key.                      *)
(***************************************************************************)
Kyiv == <<"K", "y", "i", "v">>
Lviv == <<"L", "v", "i", "v">>
Kyyiv == <<"K", "y", "y", "i", "v">>
Zzz == <<"Z", "z", "z">>

WORK_REGIONS == <<[name |-> Kyiv, id |-> 1], [name |-> Lviv, id |-> 2]>>
WORK_SALARY_FROM_OPTIONS == <<[name |-> "10000", id |-> 2]>>
WORK_SALARY_TO_OPTIONS == <<[name |-> "20000", id |-> 4]>>
WORK_EXPERIENCE_OPTIONS ==
    <<[name |-> "No experience", id |-> "0"],
      [name |-> "More than 5 years", id |-> "166"]>>

ROBOTA_REGIONS == <<[name |-> Kyiv, id |-> 1], [name |-> Lviv, id |-> 3]>>
ROBOTA_EXPERIENCE_OPTIONS ==
    <<[name |-> "No experience", id |-> "1"],
      [name |-> "5 to 10 years", id |-> "5"],
      [name |-> "More than 10 years", id |-> "6"]>>

\* dict.keys(): the keys in insertion order
Keys(table) == [i \in 1..Len(table) |-> table[i].name]

\* key in dict
HasKey(table, key) == \E i \in 1..Len(table) : table[i].name = key

\* dict[key] for a key of the dict
Lookup(table, key) == table[CHOOSE i \in 1..Len(table) : table[i].name = key].id

(***************************************************************************)
(* A dict is a function from its keys; Raised(e) is a call that ended      *)
(* with exception e instead of a value.                                    *)
(***************************************************************************)
Returned(v) == [ok |-> TRUE, value |-> v]
Raised(e) == [ok |-> FALSE, error |-> e]

\* "+".join(ids)
RECURSIVE JoinPlus(_)
JoinPlus(ids) ==
    IF ids = <<>> THEN ""
    ELSE IF Len(ids) = 1 THEN ids[1]
    ELSE ids[1] \o "+" \o JoinPlus(Tail(ids))

\* WorkUaParser.__unpack_search_options: a subscript with a key the dict
\* lacks raises KeyError; the statements run in the order region,
\* salary_from, salary_to, experience
WorkUnpackSearchOptions(query) ==
    LET hasRegion == query.region # None /\ query.region.val # <<>>
        region == IF hasRegion
                  THEN GetMostSimilarWord(query.region, Keys(WORK_REGIONS))
                  ELSE None
    IN  IF query.salary_from # 0
           /\ ~HasKey(WORK_SALARY_FROM_OPTIONS, Str(query.salary_from))
        THEN Raised("KeyError")
        ELSE IF query.salary_to # 0
                /\ ~HasKey(WORK_SALARY_TO_OPTIONS, Str(query.salary_to))
        THEN Raised("KeyError")
        ELSE IF \E i \in 1..Len(query.experience) :
                    ~HasKey(WORK_EXPERIENCE_OPTIONS, query.experience[i])
        THEN Raised("KeyError")
        ELSE Returned(
            [search |-> query.search]
            @@ (IF hasRegion
                THEN [region |-> IF region # None
                                 THEN IntV(Lookup(WORK_REGIONS, region.val))
                                 ELSE None]
                ELSE <<>>)
            @@ (IF query.salary_from # 0
                THEN [salaryfrom |-> Lookup(WORK_SALARY_FROM_OPTIONS, Str(query.salary_from))]
                ELSE <<>>)
            @@ (IF query.salary_to # 0
                THEN [salaryto |-> Lookup(WORK_SALARY_TO_OPTIONS, Str(query.salary_to))]
                ELSE <<>>)
            @@ (IF query.experience # <<>>
                THEN [experience |->
                        JoinPlus([i \in 1..Len(query.experience) |->
                                    Lookup(WORK_EXPERIENCE_OPTIONS, query.experience[i])])]
                ELSE <<>>))

\* urllib.parse.urlencode(payload): every value of the dict by its str()
Urlencode(dict) ==
    [k \in DOMAIN dict |->
        IF k = "region"
        THEN (IF dict[k] = None THEN "None" ELSE Str(dict[k].val))
        ELSE IF k \in {"salaryfrom", "salaryto", "page"} THEN Str(dict[k])
        ELSE dict[k]]

\* RobotaUaParser.__unpack_search_options: dict.get for the tags, a
\* subscript for the two labels that stand for "More than 5 years"
RobotaUnpackSearchOptions(query) ==
    LET region_name == GetMostSimilarWord(query.region, Keys(ROBOTA_REGIONS))
        region_id == IF region_name # None
                     THEN IntV(Lookup(ROBOTA_REGIONS, region_name.val))
                     ELSE None
        known == SelectSeq(query.experience,
                           LAMBDA e : HasKey(ROBOTA_EXPERIENCE_OPTIONS, e)
                                      /\ Lookup(ROBOTA_EXPERIENCE_OPTIONS, e) # "")
        ids == [i \in 1..Len(known) |-> Lookup(ROBOTA_EXPERIENCE_OPTIONS, known[i])]
        more == \E i \in 1..Len(query.experience) :
                    query.experience[i] = "More than 5 years"
    IN  IF more /\ (~HasKey(ROBOTA_EXPERIENCE_OPTIONS, "5 to 10 years")
                    \/ ~HasKey(ROBOTA_EXPERIENCE_OPTIONS, "More than 10 years"))
        THEN Raised("KeyError")
        ELSE Returned(
            [cityId |-> region_id,
             keyWords |-> query.search,
             salary |-> [from |-> query.salary_from, to |-> query.salary_to],
             experienceIds |->
                IF more
                THEN ids \o <<Lookup(ROBOTA_EXPERIENCE_OPTIONS, "5 to 10 years"),
                              Lookup(ROBOTA_EXPERIENCE_OPTIONS, "More than 10 years")>>
                ELSE ids])

(***************************************************************************)
(* HTTP responses.  requests raises a RequestException for a timeout, a    *)
(* transport error and, through raise_for_status, for a 4xx/5xx status.    *)
(***************************************************************************)
HttpError == [kind |-> "error"]
EmptyBody == [kind |-> "empty"]

\* bool(x) of a value that is None, an empty body or a document
Truthy(x) == x # None /\ x # EmptyBody

(***************************************************************************)
(* WorkUaParser: listing pages.                                            *)
(***************************************************************************)
WORK_UA_URL == "https://www.work.ua"
PAGE_SIZE == 14

Href(n) == "/resumes/" \o Str(n) \o "/"

Num(n) == [num |-> n]
Word(w) == [word |-> w]
IsNum(t) == "num" \in DOMAIN t
CandidateMarkers == {"candidate", "candidates", "Candidate", "Candidates"}
IsMarker(t) == "word" \in DOMAIN t /\ t.word \in CandidateMarkers

\* get_total_candidates that takes a page without a count for an empty
\* result
GetTotalCandidatesOrZero(html) ==
    LET hits == {i \in 1..(Len(html.text) - 1) :
                    IsNum(html.text[i]) /\ IsMarker(html.text[i + 1])}
    IN  IF hits = {} THEN Returned(0)
        ELSE Returned(html.text[CHOOSE i \in hits : \A j \in hits : i <= j].num)

\* get_total_candidates: the first number of the page text that is
\* followed by the marker; an Exception when there is none
GetTotalCandidates(html) ==
    LET hits == {i \in 1..(Len(html.text) - 1) :
                    IsNum(html.text[i]) /\ IsMarker(html.text[i + 1])}
    IN  IF hits = {} THEN Raised("Exception")
        ELSE Returned(html.text[CHOOSE i \in hits : \A j \in hits : i <= j].num)

\* math.ceil(total_candidates / 14)
TotalPages(candidates) == (candidates + PAGE_SIZE - 1) \div PAGE_SIZE

\* the page requested after page p in plain ascending order
NextPageAscending(p, pages) == IF p + 1 <= pages THEN p + 1 ELSE 0

\* the page the loops of get_resume_pages request after page p, 0 when
\* they are over: range(2, pages + 1, 2), then range(3, pages + 1, 2)
NextPage(p, pages) ==
    IF p = 1 THEN (IF 2 <= pages THEN 2 ELSE 0)
    ELSE IF p % 2 = 0
         THEN (IF p + 2 <= pages THEN p + 2 ELSE IF 3 <= pages THEN 3 ELSE 0)
         ELSE (IF p + 2 <= pages THEN p + 2 ELSE 0)

\* a listing fetch whose failure is swallowed: the page counts as empty
ListingFetchLenient(reply) ==
    IF reply = HttpError THEN Returned([kind |-> "html", page |-> 0, text |-> <<>>, links |-> <<>>])
    ELSE Returned(reply)

\* requests.get + raise_for_status in get_resume_pages: the exception is
\* logged and raised again
ListingFetch(reply) ==
    IF reply = HttpError THEN Raised("RequestException") ELSE Returned(reply)

\* get_resume_href_from_html: the href of every result card, in page order
GetResumeHrefFromHtml(html) == html.links

RECURSIVE ExtendAll(_)
ExtendAll(pages) ==
    IF pages = <<>> THEN <<>>
    ELSE GetResumeHrefFromHtml(Head(pages)) \o ExtendAll(Tail(pages))

(***************************************************************************)
(* WorkUaParser: detail pages.                                             *)
(***************************************************************************)
\* get_resume_html_from_href that lets the exception through
GetResumeHtmlFromHrefRaising(reply) ==
    IF reply = HttpError THEN Raised("RequestException") ELSE Returned(reply)

\* get_resume_html_from_href: the body, None after a RequestException
GetResumeHtmlFromHref(reply) ==
    IF reply = HttpError THEN Returned(None) ELSE Returned(reply)

StopWords == {"the", "a", "of"}
Alnum == {"python", "developer", "2020", "the", "a", "of"}

\* round(x) of Python for the exact x = num/den >= 0: to the nearest
\* integer, a tie to the even one
RoundHalfEven(num, den) ==
    LET q == num \div den
        r == num % den
    IN  IF 2 * r < den THEN q
        ELSE IF 2 * r > den THEN q + 1
        ELSE IF q % 2 = 0 THEN q ELSE q + 1

\* the pairs (m, t), t < 260, with 100*m/t halfway between two integers for
\* which the double (m / t) * 100 is not that half: it falls below it, or
\* above it
FloatBelowHalf ==
    {<<23, 40>>, <<46, 80>>, <<69, 120>>, <<92, 160>>, <<115, 200>>, <<138, 240>>}
FloatAboveHalf == {<<109, 200>>}

\* round((m / t) * 100) in double arithmetic for 0 <= m <= t, 0 < t < 260:
\* the quotient and the product are rounded, which moves the value across
\* an integer plus one half only where it was exactly that half
RoundPercentage(m, t) ==
    LET q == (100 * m) \div t
    IN  IF <<m, t>> \in FloatBelowHalf THEN q
        ELSE IF <<m, t>> \in FloatAboveHalf THEN q + 1
        ELSE RoundHalfEven(100 * m, t)

\* a filling percentage that drops the fraction instead of rounding
FillingPercentageTruncated(tokens) ==
    LET meaningful_words == SelectSeq(tokens, LAMBDA w : w \in Alnum /\ w \notin StopWords)
        total_words == Len(tokens)
    IN  IF total_words # 0 THEN (Len(meaningful_words) * 100) \div total_words ELSE 0

\* the filling percentage of parse_resume over the tokens of the page text
FillingPercentage(tokens) ==
    LET meaningful_words == SelectSeq(tokens, LAMBDA w : w \in Alnum /\ w \notin StopWords)
        total_words == Len(tokens)
    IN  IF total_words # 0
        THEN RoundPercentage(Len(meaningful_words), total_words)
        ELSE 0

\* the siblings that follow the heading "Work experience": a role heading
\* (an h2 whose class holds h4), a details paragraph (a p of class mb-0)
Role(position) == [tag |-> "h2", position |-> position]
Details(duration, rest) == [tag |-> "p", duration |-> duration, rest |-> rest]

\* position_tag.find_next_sibling("p", class_="mb-0"): the closest details
\* paragraph among the siblings after position i, None without one
FindNextSibling(siblings, i) ==
    LET later == {j \in (i + 1)..Len(siblings) : siblings[j].tag = "p"}
    IN  IF later = {} THEN None
        ELSE siblings[CHOOSE j \in later : \A k \in later : j <= k]

\* the loop over experience_section: one entry per role heading for which
\* find_next_sibling gives a paragraph
RECURSIVE ExperienceFrom(_, _)
ExperienceFrom(siblings, i) ==
    IF i > Len(siblings) THEN <<>>
    ELSE LET details_tag == FindNextSibling(siblings, i)
         IN  IF siblings[i].tag = "h2" /\ details_tag # None
             THEN <<[position |-> StrV(siblings[i].position),
                     duration |-> details_tag.duration,
                     details |-> StrV(details_tag.rest)]>>
                  \o ExperienceFrom(siblings, i + 1)
             ELSE ExperienceFrom(siblings, i + 1)

\* the experience entries of parse_resume; no heading "Work experience", no
\* entries
ParseExperience(html) ==
    IF html.work_experience = None THEN <<>>
    ELSE ExperienceFrom(html.work_experience.val, 1)

\* parse_resume: the dict it returns; the salary goes under the key
\* "salary expectation".  A salary is a sequence of characters.
ParseResume(html) ==
    IF html.description # None /\ html.description.phrase
       /\ html.description.rest = <<>>
    THEN Raised("IndexError")
    ELSE Returned(
        [salary_expectation |-> <<>>,
         experience |-> ParseExperience(html),
         filling_percentage |-> FillingPercentage(html.tokens)]
        @@ (IF html.description # None /\ html.description.phrase
            THEN ("salary expectation" :> html.description.rest[1])
            ELSE <<>>))

\* models.Resume(**resume_json): the declared fields, other keys ignored
MakeResume(resume_json) ==
    [href |-> resume_json.href,
     salary_expectation |-> resume_json.salary_expectation,
     experience |-> resume_json.experience,
     filling_percentage |-> resume_json.filling_percentage]

\* the second loop of WorkUaParser.search_resumes: record i is built from
\* resume_htmls[i] and hrefs[i]
RECURSIVE WorkBuildResumes(_, _, _)
WorkBuildResumes(hs, htmls, i) ==
    IF i > Len(htmls) THEN Returned(<<>>)
    ELSE LET resume == ParseResume(htmls[i])
             rest == WorkBuildResumes(hs, htmls, i + 1)
         IN  IF ~resume.ok THEN resume
             ELSE IF ~rest.ok THEN rest
             ELSE Returned(<<MakeResume([href |-> WORK_UA_URL \o hs[i]] @@ resume.value)>>
                           \o rest.value)

(***************************************************************************)
(* RobotaUaParser: the two POST requests and the documents.                *)
(***************************************************************************)
ROBOTA_BASE_URL == "https://robota.ua"
NotJson == [kind |-> "notjson"]
NBSP == "nbsp"
Blank == {" ", NBSP}

\* str.strip(): without the leading and trailing white space (a
\* non-breaking space is white space)
RECURSIVE Strip(_)
Strip(s) ==
    IF s = <<>> THEN <<>>
    ELSE IF Head(s) \in Blank THEN Strip(Tail(s))
    ELSE IF s[Len(s)] \in Blank THEN Strip(SubSeq(s, 1, Len(s) - 1))
    ELSE s

\* format_salary_expectation: strip(), then every non-breaking space
\* replaced by a blank
FormatSalaryExpectation(salary) ==
    LET t == Strip(salary) IN [i \in 1..Len(t) |-> IF t[i] = NBSP THEN " " ELSE t[i]]

\* unpack_resume_from_response followed by models.Resume(**resume_json): a
\* subscript of a missing key raises KeyError, None has no strip() and
\* cannot be iterated
RobotaUnpackResume(doc) ==
    IF "resumeId" \notin DOMAIN doc \/ "salary" \notin DOMAIN doc THEN Raised("KeyError")
    ELSE IF doc.salary = None THEN Raised("AttributeError")
    ELSE IF "experience" \notin DOMAIN doc THEN Raised("KeyError")
    ELSE IF doc.experience = None THEN Raised("TypeError")
    ELSE IF \E i \in 1..Len(doc.experience.val) :
                {"position", "datesDiff", "company"} \ DOMAIN doc.experience.val[i] # {}
    THEN Raised("KeyError")
    ELSE IF "fillingPercentage" \notin DOMAIN doc THEN Raised("KeyError")
    ELSE Returned(MakeResume(
        [href |-> ROBOTA_BASE_URL \o "/candidates/" \o Str(doc.resumeId),
         salary_expectation |-> FormatSalaryExpectation(doc.salary.val),
         experience |-> [i \in 1..Len(doc.experience.val) |->
                            [position |-> doc.experience.val[i].position,
                             duration |-> doc.experience.val[i].datesDiff,
                             details |-> doc.experience.val[i].company]],
         filling_percentage |-> doc.fillingPercentage]))

RECURSIVE RobotaUnpackAll(_)
RobotaUnpackAll(docs) ==
    IF docs = <<>> THEN Returned(<<>>)
    ELSE LET first == RobotaUnpackResume(Head(docs))
             rest == RobotaUnpackAll(Tail(docs))
         IN  IF ~first.ok THEN first
             ELSE IF ~rest.ok THEN rest
             ELSE Returned(<<first.value>> \o rest.value)

\* response.json()["total"] of the first response; its status is not read
RobotaTotal(reply) ==
    IF reply = HttpError THEN Raised("RequestException")
    ELSE IF reply.body = NotJson THEN Raised("JSONDecodeError")
    ELSE IF "total" \notin DOMAIN reply.body THEN Raised("KeyError")
    ELSE Returned(reply.body.total)

\* lines 223-239 of RobotaUaParser.search_resumes: the list for status 200;
\* otherwise raise_for_status(), which raises for a 4xx/5xx status and
\* returns for any other, and the function ends without a value
RobotaSearchResult(reply) ==
    IF reply = HttpError THEN Raised("RequestException")
    ELSE IF reply.status = 200
    THEN (IF reply.body = NotJson THEN Raised("JSONDecodeError")
          ELSE IF "documents" \notin DOMAIN reply.body THEN Raised("KeyError")
          ELSE LET resumes == RobotaUnpackAll(reply.body.documents)
               IN  IF resumes.ok THEN Returned(ListV(resumes.value)) ELSE resumes)
    ELSE IF reply.status >= 400 THEN Raised("HTTPError")
    ELSE Returned(None)

(***************************************************************************)
(* TelegramResumeBot: sessions and the /search handler.                    *)
(***************************************************************************)
Chats == {"c1", "c2"}

\* models.SearchOptions(**search_options): an int field refuses a string
\* that is no number
SearchOptionsInit(search_options) ==
    IF search_options.salary_from.type # "int" \/ search_options.salary_to.type # "int"
    THEN Raised("ValidationError")
    ELSE Returned([search |-> search_options.search,
                   region |-> StrV(search_options.region),
                   salary_from |-> search_options.salary_from.val,
                   salary_to |-> search_options.salary_to.val,
                   experience |-> search_options.experience])

\* str(n) for any integer
StrInt(n) == IF n < 0 THEN "-" \o Str(-n) ELSE Str(n)

OrNA(v) == IF v = None \/ v.val = "" THEN "N/A" ELSE v.val

\* format_resume: the lines of the text; salary and experience only when
\* they are set
FormatResume(resume) ==
    [href |-> "Resume: " \o resume.href,
     salary |-> IF resume.salary_expectation # <<>>
                THEN <<"Salary expectation: ", resume.salary_expectation>>
                ELSE <<>>,
     experience |-> [i \in 1..Len(resume.experience) |->
                        [position |-> "Position: " \o OrNA(resume.experience[i].position),
                         duration |-> "Duration: " \o OrNA(resume.experience[i].duration),
                         details |-> "Details: " \o OrNA(resume.experience[i].details)]],
     filling |-> "Resume filling percentage: " \o StrInt(resume.filling_percentage) \o "%"]

NoMessage == [kind |-> "none"]

\* the message of lines 384-389
ResultMessage(chat, combined, top) ==
    [kind |-> "results", chat_id |-> chat, found |-> Len(combined),
     resumes |-> [i \in 1..Len(top) |-> FormatResume(top[i])]]

(***************************************************************************)
(* The inputs of Spec: the sessions /search is issued from, the pages the  *)
(* site serves and the answers of the API.                                 *)
(***************************************************************************)
Session(options) == [state |-> "free", search_options |-> options]

\* the stored parameters after /start and the keywords "python"; the same
\* with a minimum salary the scraping adapter has no bracket for; the
\* parameters after /clear and the keywords "python"
SearchSessions ==
    {Session([search |-> "python", region |-> <<>>, salary_from |-> IntV(0),
              salary_to |-> IntV(0), experience |-> <<>>]),
     Session([search |-> "python", region |-> <<>>, salary_from |-> IntV(12345),
              salary_to |-> IntV(0), experience |-> <<>>]),
     Session([search |-> "python", region |-> <<>>, salary_from |-> StrV(""),
              salary_to |-> StrV(""), experience |-> <<>>])}

\* the candidate counts a first page reports: none, and for each number of
\* pages the least and the greatest count
CandidateCounts ==
    {0} \cup {PAGE_SIZE * k + 1 : k \in 0..(MaxPages - 1)}
        \cup {PAGE_SIZE * k : k \in 1..MaxPages}

ListingTexts(page) ==
    IF page = 1
    THEN {<<Word("Resumes"), Num(n), Word("candidates")>> : n \in CandidateCounts}
         \cup {<<Word("candidates"), Num(PAGE_SIZE)>>}
    ELSE {<<>>}

\* a listing page with k result cards, the first c links being taken
ListingPage(page, text, c, k) ==
    [kind |-> "html", page |-> page, text |-> text,
     links |-> [i \in 1..k |-> Href(c + i)]]

\* a page shows no card with a link or one, MaxLinks over all pages, and
\* no card when it reports no candidate
ListingReplies(page, c) ==
    {HttpError}
    \cup {r \in {ListingPage(page, t, c, k) : t \in ListingTexts(page),
                                              k \in 0..Min(1, MaxLinks - c)} :
            r.text = <<Word("Resumes"), Num(0), Word("candidates")>> => r.links = <<>>}

\* the detail page behind link n
DetailPage(n) ==
    [kind |-> "html",
     href |-> Href(n),
     description |-> IF n % 2 = 1 THEN [phrase |-> TRUE, rest |-> <<<<"5", "0", "0", "0">>, <<"U", "A", "H">>>>]
                     ELSE None,
     work_experience |->
        IF n = 1
        THEN ListV(<<Role("Python developer"), Details(StrV("2 years"), "Acme"),
                     Role("Intern")>>)
        ELSE None,
     tokens |-> IF n = 1 THEN <<"python", "developer", "of", ",">>
                ELSE IF n = 2 THEN <<"python", "the">>
                ELSE <<"python">>]

DetailReplies(href) ==
    {HttpError, EmptyBody} \cup {DetailPage(n) : n \in {m \in 1..MaxLinks : Href(m) = href}}

\* a document of the API at position i of the response
ApiDocuments(i) ==
    {[resumeId |-> i, salary |-> StrV(<<" ", "9", NBSP, "0", " ">>),
      experience |-> ListV(<<[position |-> StrV("QA"), datesDiff |-> None,
                              company |-> StrV("Acme")]>>),
      fillingPercentage |-> 75],
     [resumeId |-> i, salary |-> StrV(<<>>), experience |-> ListV(<<>>),
      fillingPercentage |-> 150]}

\* the responses with n documents
RECURSIVE ApiDocumentLists(_)
ApiDocumentLists(n) ==
    IF n = 0 THEN {<<>>}
    ELSE {Append(l, d) : l \in ApiDocumentLists(n - 1), d \in ApiDocuments(n)}

JsonReply(status, body) == [kind |-> "json", status |-> status, body |-> body]

CountReplies ==
    {HttpError, JsonReply(500, NotJson), JsonReply(401, [message |-> "Unauthorized"])}
    \cup {JsonReply(200, [total |-> n]) : n \in 0..MaxDocuments}

SearchReplies(count) ==
    {HttpError, JsonReply(500, NotJson), JsonReply(204, NotJson)}
    \cup {JsonReply(200, [total |-> count, documents |-> l]) : l \in ApiDocumentLists(count)}

(***************************************************************************)
(* Spec: one /search from the handler's entry to its end, one action per   *)
(* HTTP response.                                                          *)
(***************************************************************************)
workLocals == <<payload, total_candidates, total_pages, html_pages, hrefs, resume_htmls>>
workReturn == <<origin, work_outcome, work_ua_results>>
robotaVars == <<robota_payload, robota_outcome, robota_ua_results>>
rankVars == <<combined_results, top_resumes, sent>>
mainVars == <<constructing, robota_ua_parser, bot>>

\* no inline keyboard is on display in any chat
KeyboardKinds == {"salary_from", "salary_to", "experience"}
NoKeyboards == [c \in Chats |-> [k \in KeyboardKinds |-> 0]]
callVars == <<args, outcome>>

ListingRequest(page) == [kind |-> "listing", page |-> page, href |-> "", index |-> 0]
DetailRequest(hs, i) == [kind |-> "detail", page |-> 0, href |-> hs[i], index |-> i]
RobotaRequest(kind) == [kind |-> kind, page |-> 0, href |-> "", index |-> 0]

\* the vocabularies of the bot's keyboards: label and value of a salary
\* option, label and callback key of an experience option
TELEGRAM_SALARY_FROM_OPTIONS == <<[name |-> "from 10000", id |-> 10000]>>
TELEGRAM_SALARY_TO_OPTIONS == <<[name |-> "to 20000", id |-> 20000]>>
TELEGRAM_EXPERIENCE_OPTIONS ==
    <<[name |-> "No experience", id |-> "experience_none"],
      [name |-> "More than 5 years", id |-> "experience_5"]>>

\* RobotaUaParser.__set_headers
SetHeaders(self) ==
    self @@ [headers |-> [ContentType |-> "application/json",
                          Authorization |-> "Bearer " \o self.token.val]]

\* the API adapter and the bot as main builds them when every file is read
RobotaBuilt ==
    SetHeaders([class |-> "RobotaUaParser", token |-> StrV("t1")])
    @@ [REGIONS |-> ROBOTA_REGIONS, EXPERIENCE_OPTIONS |-> ROBOTA_EXPERIENCE_OPTIONS]
BotBuilt ==
    [class |-> "TelegramResumeBot",
     SALARY_FROM_OPTIONS |-> TELEGRAM_SALARY_FROM_OPTIONS,
     SALARY_TO_OPTIONS |-> TELEGRAM_SALARY_TO_OPTIONS,
     EXPERIENCE_OPTIONS |-> TELEGRAM_EXPERIENCE_OPTIONS]

\* main has built the adapters and the bot, and the bot is polling
Running ==
    /\ constructing = None
    /\ robota_ua_parser = RobotaBuilt
    /\ bot = BotBuilt

\* no function is applied on its own
NoCall ==
    /\ args = None
    /\ outcome = None

Init ==
    /\ pc = "idle"
    /\ chat_id = None
    /\ user_data \in {[c \in Chats |-> IF c = "c1" THEN session ELSE None] :
                        session \in SearchSessions}
    /\ params = None
    /\ error = ""
    /\ inflight = None
    /\ http_log = <<>>
    /\ payload = <<>>
    /\ total_candidates = None
    /\ total_pages = None
    /\ html_pages = <<>>
    /\ hrefs = <<>>
    /\ resume_htmls = <<>>
    /\ origin = <<>>
    /\ work_outcome = "pending"
    /\ work_ua_results = <<>>
    /\ robota_payload = <<>>
    /\ robota_outcome = "pending"
    /\ robota_ua_results = <<>>
    /\ combined_results = <<>>
    /\ top_resumes = <<>>
    /\ sent = NoMessage
    /\ keyboards = NoKeyboards
    /\ Running
    /\ NoCall

\* an exception leaves the handler: the application logs it, nothing is sent
HandlerRaises(e) ==
    /\ pc' = "raised"
    /\ error' = e
    /\ inflight' = None

\* the scraping adapter's search_resumes ends: with an exception, which
\* leaves the handler too, or with its list, and the handler calls the API
\* adapter, which builds its payload and sends its first request
WorkSearchEnds(result, from) ==
    IF ~result.ok
    THEN /\ HandlerRaises(result.error)
         /\ work_outcome' = "raised"
         /\ UNCHANGED <<origin, work_ua_results, robotaVars>>
    ELSE /\ work_outcome' = "returned"
         /\ work_ua_results' = result.value
         /\ origin' = from
         /\ LET unpacked == RobotaUnpackSearchOptions(params)
            IN  IF ~unpacked.ok
                THEN /\ HandlerRaises(unpacked.error)
                     /\ robota_outcome' = "raised"
                     /\ UNCHANGED <<robota_payload, robota_ua_results>>
                ELSE /\ robota_payload' = unpacked.value
                     /\ inflight' = RobotaRequest("robota_count")
                     /\ pc' = "robota_count"
                     /\ UNCHANGED <<error, robota_outcome, robota_ua_results>>

\* /search: lines 364-378 up to the first request of get_resume_pages
BotSearch(chat) ==
    /\ pc = "idle"
    /\ UNCHANGED <<mainVars, callVars, keyboards>>
    /\ chat_id' = chat
    /\ UNCHANGED <<user_data, http_log, total_candidates, total_pages, html_pages,
                   hrefs, resume_htmls, origin, work_ua_results, robotaVars,
                   combined_results, top_resumes>>
    /\ IF user_data[chat] = None
       THEN /\ HandlerRaises("KeyError")
            /\ UNCHANGED <<params, payload, work_outcome, sent>>
       ELSE IF "search" \notin DOMAIN user_data[chat].search_options
       THEN /\ sent' = [kind |-> "text", chat_id |-> chat,
                        text |-> "Please provide at least keywords."]
            /\ pc' = "done"
            /\ UNCHANGED <<params, payload, work_outcome, error, inflight>>
       ELSE LET search_options == SearchOptionsInit(user_data[chat].search_options)
            IN  IF ~search_options.ok
                THEN /\ HandlerRaises(search_options.error)
                     /\ UNCHANGED <<params, payload, work_outcome, sent>>
                ELSE LET unpacked == WorkUnpackSearchOptions(search_options.value)
                     IN  /\ params' = search_options.value
                         /\ sent' = sent
                         /\ IF ~unpacked.ok
                            THEN /\ HandlerRaises(unpacked.error)
                                 /\ work_outcome' = "raised"
                                 /\ UNCHANGED payload
                            ELSE /\ payload' = unpacked.value @@ [page |-> 1]
                                 /\ inflight' = ListingRequest(1)
                                 /\ pc' = "work_listing"
                                 /\ UNCHANGED <<error, work_outcome>>

\* get_resume_pages: the response to the request for a listing page
WorkListingResponse ==
    /\ pc = "work_listing"
    /\ UNCHANGED <<mainVars, callVars, keyboards>>
    /\ \E reply \in ListingReplies(inflight.page, Len(ExtendAll(html_pages))) :
        LET fetched == ListingFetch(reply)
            first == inflight.page = 1
            counted == IF ~fetched.ok THEN fetched
                       ELSE IF first THEN GetTotalCandidates(fetched.value)
                       ELSE Returned(total_candidates)
        IN  /\ http_log' = Append(http_log, inflight @@ [reply |-> reply])
            /\ UNCHANGED <<chat_id, user_data, params, resume_htmls, rankVars>>
            /\ IF ~counted.ok
               THEN /\ HandlerRaises(counted.error)
                    /\ work_outcome' = "raised"
                    /\ UNCHANGED <<workLocals, origin, work_ua_results, robotaVars>>
               ELSE LET pages == IF first THEN TotalPages(counted.value) ELSE total_pages
                        next == NextPage(inflight.page, pages)
                        htmls == Append(html_pages, fetched.value)
                    IN  /\ total_candidates' = counted.value
                        /\ total_pages' = pages
                        /\ html_pages' = htmls
                        /\ IF next # 0
                           THEN /\ payload' = [payload EXCEPT !.page = next]
                                /\ inflight' = ListingRequest(next)
                                /\ UNCHANGED <<pc, error, hrefs, workReturn, robotaVars>>
                           ELSE /\ hrefs' = ExtendAll(htmls)
                                /\ UNCHANGED payload
                                /\ IF ExtendAll(htmls) # <<>>
                                   THEN /\ inflight' = DetailRequest(ExtendAll(htmls), 1)
                                        /\ pc' = "work_detail"
                                        /\ UNCHANGED <<error, workReturn, robotaVars>>
                                   ELSE WorkSearchEnds(WorkBuildResumes(<<>>, <<>>, 1), <<>>)

\* search_resumes: the response to the request for a detail page; after the
\* last one the records are built and returned
WorkDetailResponse ==
    /\ pc = "work_detail"
    /\ UNCHANGED <<mainVars, callVars, keyboards>>
    /\ \E reply \in DetailReplies(inflight.href) :
        LET resume_html == GetResumeHtmlFromHref(reply)
            htmls == IF resume_html.ok /\ Truthy(resume_html.value)
                     THEN Append(resume_htmls, resume_html.value)
                     ELSE resume_htmls
        IN  /\ http_log' = Append(http_log, inflight @@ [reply |-> reply])
            /\ UNCHANGED <<chat_id, user_data, params, payload, total_candidates,
                           total_pages, html_pages, hrefs, rankVars>>
            /\ IF ~resume_html.ok
               THEN /\ HandlerRaises(resume_html.error)
                    /\ work_outcome' = "raised"
                    /\ UNCHANGED <<resume_htmls, origin, work_ua_results, robotaVars>>
               ELSE /\ resume_htmls' = htmls
                    /\ IF inflight.index < Len(hrefs)
                       THEN /\ inflight' = DetailRequest(hrefs, inflight.index + 1)
                            /\ UNCHANGED <<pc, error, workReturn, robotaVars>>
                       ELSE WorkSearchEnds(WorkBuildResumes(hrefs, htmls, 1),
                                           [i \in 1..Len(htmls) |-> htmls[i].href])

\* RobotaUaParser.search_resumes: the response to the first request
RobotaCountResponse ==
    /\ pc = "robota_count"
    /\ UNCHANGED <<mainVars, callVars, keyboards>>
    /\ \E reply \in CountReplies :
        LET total == RobotaTotal(reply)
        IN  /\ http_log' = Append(http_log, inflight @@ [reply |-> reply])
            /\ UNCHANGED <<chat_id, user_data, params, workLocals, workReturn,
                           robota_ua_results, rankVars>>
            /\ IF ~total.ok
               THEN /\ HandlerRaises(total.error)
                    /\ robota_outcome' = "raised"
                    /\ UNCHANGED robota_payload
               ELSE /\ robota_payload' = robota_payload @@ [count |-> total.value]
                    /\ inflight' = RobotaRequest("robota_search")
                    /\ pc' = "robota_search"
                    /\ UNCHANGED <<error, robota_outcome>>

\* lines 380-382 of the handler: list + list, sort(reverse=True), [:5]
Rank(work, robota) ==
    LET combined == SortReverse(work \o robota)
    IN  [combined_results |-> combined, top_resumes |-> Take(combined, TOP_N)]

\* RobotaUaParser.search_resumes: the response to the second request, and
\* the rest of the handler: the results are merged, ranked and sent
RobotaSearchResponse ==
    /\ pc = "robota_search"
    /\ UNCHANGED <<mainVars, callVars, keyboards>>
    /\ \E reply \in SearchReplies(robota_payload.count) :
        LET result == RobotaSearchResult(reply)
        IN  /\ http_log' = Append(http_log, inflight @@ [reply |-> reply])
            /\ UNCHANGED <<chat_id, user_data, params, workLocals, workReturn,
                           robota_payload>>
            /\ IF ~result.ok
               THEN /\ HandlerRaises(result.error)
                    /\ robota_outcome' = "raised"
                    /\ UNCHANGED <<robota_ua_results, rankVars>>
               ELSE /\ robota_outcome' = "returned"
                    /\ IF result.value = None
                       THEN /\ robota_ua_results' = None
                            /\ HandlerRaises("TypeError")
                            /\ UNCHANGED rankVars
                       ELSE LET ranked == Rank(work_ua_results, result.value.val)
                            IN  /\ robota_ua_results' = result.value.val
                                /\ combined_results' = ranked.combined_results
                                /\ top_resumes' = ranked.top_resumes
                                /\ sent' = ResultMessage(chat_id, ranked.combined_results,
                                                         ranked.top_resumes)
                                /\ pc' = "done"
                                /\ inflight' = None
                                /\ UNCHANGED error

Next ==
    \/ \E chat \in Chats : BotSearch(chat)
    \/ WorkListingResponse
    \/ WorkDetailResponse
    \/ RobotaCountResponse
    \/ RobotaSearchResponse

Spec == Init /\ [][Next]_vars

(***************************************************************************)
(* SpecRank: lines 380-389 of the /search handler on every pair of         *)
(* bounded adapter results.                                                *)
(***************************************************************************)
RankHrefs == {"/resumes/1/", "/resumes/2/"}
RankPercentages == {40, 90}
RankResumes ==
    [href : RankHrefs, salary_expectation : {<<>>}, experience : {<<>>},
     filling_percentage : RankPercentages]

InitRank ==
    /\ pc = "ranking"
    /\ chat_id = "c1"
    /\ user_data = [c \in Chats |-> None]
    /\ params = None
    /\ error = ""
    /\ inflight = None
    /\ http_log = <<>>
    /\ payload = <<>>
    /\ total_candidates = None
    /\ total_pages = None
    /\ html_pages = <<>>
    /\ hrefs = <<>>
    /\ resume_htmls = <<>>
    /\ origin = <<>>
    /\ work_outcome = "returned"
    /\ work_ua_results \in SeqsUpTo(RankResumes, MaxWorkResults)
    /\ robota_payload = <<>>
    /\ robota_outcome = "returned"
    /\ robota_ua_results \in SeqsUpTo(RankResumes, MaxRobotaResults)
    /\ combined_results = <<>>
    /\ top_resumes = <<>>
    /\ sent = NoMessage
    /\ keyboards = NoKeyboards
    /\ Running
    /\ NoCall

RankAndSend ==
    /\ pc = "ranking"
    /\ UNCHANGED <<mainVars, callVars, keyboards>>
    /\ LET ranked == Rank(work_ua_results, robota_ua_results)
       IN  /\ combined_results' = ranked.combined_results
           /\ top_resumes' = ranked.top_resumes
           /\ sent' = ResultMessage(chat_id, ranked.combined_results, ranked.top_resumes)
    /\ pc' = "done"
    /\ UNCHANGED <<chat_id, user_data, params, error, inflight, http_log, workLocals,
                   workReturn, robotaVars>>

NextRank == RankAndSend

SpecRank == InitRank /\ [][NextRank]_vars

(***************************************************************************)
(* SpecQuery: the translation of a query by both adapters, on every        *)
(* combination of resolvable and unresolvable terms.                       *)
(***************************************************************************)
QueryRegions == {None, StrV(<<>>), StrV(Kyiv), StrV(Kyyiv), StrV(Zzz)}
QuerySalariesFrom == {0, 10000, 12345}
QuerySalariesTo == {0, 20000, 12345}
QueryTags == {"No experience", "More than 5 years", "Intern"}
QueryTagLists ==
    {l \in SeqsUpTo(QueryTags, MaxTags) : \A i, j \in 1..Len(l) : i # j => l[i] # l[j]}
Queries ==
    [search : {"python"}, region : QueryRegions, salary_from : QuerySalariesFrom,
     salary_to : QuerySalariesTo, experience : QueryTagLists]

InitQuery ==
    /\ pc = "query"
    /\ chat_id = "c1"
    /\ user_data = [c \in Chats |-> None]
    /\ params \in Queries
    /\ error = ""
    /\ inflight = None
    /\ http_log = <<>>
    /\ payload = <<>>
    /\ total_candidates = None
    /\ total_pages = None
    /\ html_pages = <<>>
    /\ hrefs = <<>>
    /\ resume_htmls = <<>>
    /\ origin = <<>>
    /\ work_outcome = "pending"
    /\ work_ua_results = <<>>
    /\ robota_payload = <<>>
    /\ robota_outcome = "pending"
    /\ robota_ua_results = <<>>
    /\ combined_results = <<>>
    /\ top_resumes = <<>>
    /\ sent = NoMessage
    /\ keyboards = NoKeyboards
    /\ Running
    /\ NoCall

\* WorkUaParser.__unpack_search_options(params)
QueryWork ==
    /\ pc = "query"
    /\ UNCHANGED <<mainVars, callVars, keyboards>>
    /\ LET unpacked == WorkUnpackSearchOptions(params)
       IN  /\ work_outcome' = IF unpacked.ok THEN "returned" ELSE "raised"
           /\ payload' = IF unpacked.ok THEN unpacked.value ELSE payload
           /\ error' = IF unpacked.ok THEN error ELSE unpacked.error
    /\ pc' = "query_work"
    /\ UNCHANGED <<chat_id, user_data, params, inflight, http_log, total_candidates,
                   total_pages, html_pages, hrefs, resume_htmls, origin,
                   work_ua_results, robotaVars, rankVars>>

\* RobotaUaParser.__unpack_search_options(params)
QueryRobota ==
    /\ pc = "query_work"
    /\ UNCHANGED <<mainVars, callVars, keyboards>>
    /\ LET unpacked == RobotaUnpackSearchOptions(params)
       IN  /\ robota_outcome' = IF unpacked.ok THEN "returned" ELSE "raised"
           /\ robota_payload' = IF unpacked.ok THEN unpacked.value ELSE robota_payload
           /\ error' = IF unpacked.ok THEN error ELSE unpacked.error
    /\ pc' = "query_done"
    /\ UNCHANGED <<chat_id, user_data, params, inflight, http_log, workLocals,
                   workReturn, robota_ua_results, rankVars>>

NextQuery == QueryWork \/ QueryRobota

SpecQuery == InitQuery /\ [][NextQuery]_vars

(***************************************************************************)
(* SpecConstruct: lines 20-23 of main, RobotaUaParser() and                *)
(* TelegramResumeBot(...), one step per HTTP response.                     *)
(***************************************************************************)
Tokens == {StrV("t1"), StrV("t2"), StrV("t3")}
FailureStatuses == {201, 204, 400, 401, 403, 500}

LoginReplies ==
    {HttpError, JsonReply(200, NotJson)}
    \cup {JsonReply(200, t) : t \in Tokens}
    \cup {JsonReply(st, [message |-> "Unauthorized"]) : st \in FailureStatuses}

\* a JSON file on disk: missing, not JSON, or holding value
Missing == [kind |-> "missing"]
Invalid == [kind |-> "invalid"]
Files(value) == {Missing, Invalid, [kind |-> "json", value |-> value]}

\* the cities the regions URL answers with
Cities == <<[en |-> Kyiv, id |-> 1], [en |-> Lviv, id |-> 3]>>
RegionsReplies ==
    {HttpError, JsonReply(200, NotJson), JsonReply(500, NotJson),
     JsonReply(200, ListV(Cities)), JsonReply(200, ListV(SubSeq(Cities, 1, 1))),
     JsonReply(200, ListV(<<>>))}

\* __login that takes every answered request for a success
LoginAnyStatus(reply) ==
    IF reply = HttpError THEN Raised("RequestException")
    ELSE IF reply.body = NotJson THEN Raised("JSONDecodeError")
    ELSE IF reply.status = 200 THEN Returned(reply.body)
    ELSE Returned(StrV(reply.body.message))

\* RobotaUaParser.__login: the token of a response with status 200, an
\* Exception for any other status
Login(reply) ==
    IF reply = HttpError THEN Raised("RequestException")
    ELSE IF reply.status = 200
    THEN (IF reply.body = NotJson THEN Raised("JSONDecodeError")
          ELSE Returned(reply.body))
    ELSE Raised("Exception")

\* __load_experience_options, and the salary options alike: the attribute
\* is set when the file is read, and left unset otherwise
LoadOptions(self, attribute, file) ==
    IF file.kind = "json" THEN self @@ (attribute :> file.value) ELSE self

\* the part of __load_regions after the response of the regions URL
FetchRegions(reply) ==
    IF reply = HttpError THEN Raised("RequestException")
    ELSE IF reply.status # 200 THEN Raised("Exception")
    ELSE IF reply.body = NotJson THEN Raised("JSONDecodeError")
    ELSE Returned([i \in 1..Len(reply.body.val) |->
                      [name |-> reply.body.val[i].en, id |-> reply.body.val[i].id]])

constructVars ==
    <<chat_id, user_data, params, workLocals, workReturn, robotaVars, rankVars, callVars,
      keyboards>>

InitConstruct ==
    /\ pc = "main"
    /\ chat_id = None
    /\ user_data = [c \in Chats |-> None]
    /\ params = None
    /\ error = ""
    /\ inflight = None
    /\ http_log = <<>>
    /\ payload = <<>>
    /\ total_candidates = None
    /\ total_pages = None
    /\ html_pages = <<>>
    /\ hrefs = <<>>
    /\ resume_htmls = <<>>
    /\ origin = <<>>
    /\ work_outcome = "pending"
    /\ work_ua_results = <<>>
    /\ robota_payload = <<>>
    /\ robota_outcome = "pending"
    /\ robota_ua_results = <<>>
    /\ combined_results = <<>>
    /\ top_resumes = <<>>
    /\ sent = NoMessage
    /\ keyboards = NoKeyboards
    /\ constructing = None
    /\ robota_ua_parser = None
    /\ bot = None
    /\ NoCall

\* the rest of RobotaUaParser.__init__ once REGIONS is set, and the
\* assignment of line 20 of main
RobotaConstructed(self, experience_file) ==
    /\ robota_ua_parser' = LoadOptions(self, "EXPERIENCE_OPTIONS", experience_file)
    /\ constructing' = None
    /\ inflight' = None
    /\ pc' = "robota_built"
    /\ UNCHANGED error

\* an exception leaves __init__ and main: the process ends
ConstructRaises(e) ==
    /\ pc' = "raised"
    /\ error' = e
    /\ inflight' = None
    /\ UNCHANGED <<constructing, robota_ua_parser>>

\* main line 20: RobotaUaParser() up to the request of __login
RobotaConstruct ==
    /\ pc = "main"
    /\ constructing' = [class |-> "RobotaUaParser"]
    /\ inflight' = RobotaRequest("login")
    /\ pc' = "login"
    /\ UNCHANGED <<error, http_log, robota_ua_parser, bot, constructVars>>

\* the response to the login request, __set_headers and __load_regions up
\* to its request or, the file being read, the end of __init__
LoginResponse ==
    /\ pc = "login"
    /\ \E reply \in LoginReplies, regions_file \in Files(ROBOTA_REGIONS),
          experience_file \in Files(ROBOTA_EXPERIENCE_OPTIONS) :
        LET token == Login(reply)
        IN  /\ http_log' = Append(http_log, inflight @@ [reply |-> reply])
            /\ UNCHANGED <<bot, constructVars>>
            /\ IF ~token.ok
               THEN ConstructRaises(token.error)
               ELSE LET self == SetHeaders(constructing @@ [token |-> token.value])
                    IN  IF regions_file.kind = "json"
                        THEN RobotaConstructed(self @@ [REGIONS |-> regions_file.value],
                                               experience_file)
                        ELSE /\ constructing' = self
                             /\ inflight' = RobotaRequest("regions")
                             /\ pc' = "regions"
                             /\ UNCHANGED <<error, robota_ua_parser>>

\* the response of the regions URL and the end of __init__
RegionsResponse ==
    /\ pc = "regions"
    /\ \E reply \in RegionsReplies, experience_file \in Files(ROBOTA_EXPERIENCE_OPTIONS) :
        LET regions == FetchRegions(reply)
        IN  /\ http_log' = Append(http_log, inflight @@ [reply |-> reply])
            /\ UNCHANGED <<bot, constructVars>>
            /\ IF ~regions.ok
               THEN ConstructRaises(regions.error)
               ELSE RobotaConstructed(constructing @@ [REGIONS |-> regions.value],
                                      experience_file)

\* main lines 22-23: TelegramResumeBot(...) and run()
BotConstruct ==
    /\ pc = "robota_built"
    /\ \E salary_file \in Files([SALARY_FROM_OPTIONS |-> TELEGRAM_SALARY_FROM_OPTIONS,
                                 SALARY_TO_OPTIONS |-> TELEGRAM_SALARY_TO_OPTIONS]),
          experience_file \in Files(TELEGRAM_EXPERIENCE_OPTIONS) :
        bot' = LoadOptions(
                  [class |-> "TelegramResumeBot"]
                  @@ (IF salary_file.kind = "json" THEN salary_file.value ELSE <<>>),
                  "EXPERIENCE_OPTIONS", experience_file)
    /\ pc' = "idle"
    /\ UNCHANGED <<error, inflight, http_log, constructing, robota_ua_parser, constructVars>>

NextConstruct ==
    \/ RobotaConstruct
    \/ LoginResponse
    \/ RegionsResponse
    \/ BotConstruct

SpecConstruct == InitConstruct /\ [][NextConstruct]_vars

(***************************************************************************)
(* The program built and at rest: no session, no update being handled, no  *)
(* request made.  The specifications below apply one function of the       *)
(* program to bounded inputs (args) and keep what it gives (outcome).      *)
(***************************************************************************)
AtRest ==
    /\ chat_id = "c1"
    /\ user_data = [c \in Chats |-> None]
    /\ params = None
    /\ error = ""
    /\ inflight = None
    /\ http_log = <<>>
    /\ payload = <<>>
    /\ total_candidates = None
    /\ total_pages = None
    /\ html_pages = <<>>
    /\ hrefs = <<>>
    /\ resume_htmls = <<>>
    /\ origin = <<>>
    /\ work_outcome = "pending"
    /\ work_ua_results = <<>>
    /\ robota_payload = <<>>
    /\ robota_outcome = "pending"
    /\ robota_ua_results = <<>>
    /\ combined_results = <<>>
    /\ top_resumes = <<>>
    /\ sent = NoMessage
    /\ keyboards = NoKeyboards
    /\ Running

searchVars ==
    <<chat_id, user_data, params, error, inflight, http_log, workLocals, workReturn,
      robotaVars, rankVars, keyboards>>

(***************************************************************************)
(* SpecDocuments: lines 223-233 of RobotaUaParser.search_resumes on a      *)
(* response with status 200 whose documents have, lack, or have null, the  *)
(* optional fields.                                                        *)
(***************************************************************************)
\* a key the JSON object does not have
Absent == [type |-> "absent"]

DocumentSalaries == {Absent, None, StrV(<<>>), StrV(<<" ", "9", NBSP, "0", " ">>)}

ExperienceEntries ==
    {[position |-> StrV("QA"), datesDiff |-> StrV("2 years"), company |-> StrV("Acme")],
     [position |-> None, datesDiff |-> None, company |-> None],
     [position |-> StrV("QA"), datesDiff |-> StrV("2 years")]}

DocumentExperiences ==
    {Absent, None, ListV(<<>>)} \cup {ListV(<<e>>) : e \in ExperienceEntries}

\* the JSON object of one document
Document(id, salary, experience) ==
    [resumeId |-> id, fillingPercentage |-> 75]
    @@ (IF salary = Absent THEN <<>> ELSE [salary |-> salary])
    @@ (IF experience = Absent THEN <<>> ELSE [experience |-> experience])

RECURSIVE DocumentLists(_)
DocumentLists(n) ==
    IF n = 0 THEN {<<>>}
    ELSE {Append(l, Document(n, s, e)) :
              l \in DocumentLists(n - 1), s \in DocumentSalaries, e \in DocumentExperiences}

DocumentReplies ==
    {JsonReply(200, [total |-> Len(l), documents |-> l]) :
         l \in UNION {DocumentLists(n) : n \in 0..MaxDocuments}}

InitDocuments ==
    /\ pc = "call"
    /\ AtRest
    /\ args \in DocumentReplies
    /\ outcome = None

UnpackDocuments ==
    /\ pc = "call"
    /\ outcome' = RobotaSearchResult(args)
    /\ pc' = "called"
    /\ UNCHANGED <<args, mainVars, searchVars>>

NextDocuments == UnpackDocuments

SpecDocuments == InitDocuments /\ [][NextDocuments]_vars

(***************************************************************************)
(* SpecParse: WorkUaParser.parse_resume on detail pages with and without   *)
(* the Description meta tag, the heading "Work experience", role headings  *)
(* and details paragraphs.                                                 *)
(***************************************************************************)
MaxSiblings == 3

\* the content of the Description meta tag: none, without the phrase
\* "salary starting at", the phrase followed by words, the phrase at the end
PageDescriptions ==
    {None, [phrase |-> FALSE, rest |-> <<>>],
     [phrase |-> TRUE, rest |-> <<<<"5", "0", "0", "0">>, <<"U", "A", "H">>>>],
     [phrase |-> TRUE, rest |-> <<>>]}

PageSiblings ==
    {Role("Intern"), Role("Python developer"), Details(StrV("2 years"), "Acme"),
     Details(None, "Initech")}

PageExperiences == {None} \cup {ListV(l) : l \in SeqsUpTo(PageSiblings, MaxSiblings)}

PageTokens == {<<>>, <<"python", "the">>, <<"python", "developer", "of", ",">>}

Pages ==
    [kind : {"html"}, href : {Href(1)}, description : PageDescriptions,
     work_experience : PageExperiences, tokens : PageTokens]

InitParse ==
    /\ pc = "call"
    /\ AtRest
    /\ args \in Pages
    /\ outcome = None

ParsePage ==
    /\ pc = "call"
    /\ outcome' = ParseResume(args)
    /\ pc' = "called"
    /\ UNCHANGED <<args, mainVars, searchVars>>

NextParse == ParsePage

SpecParse == InitParse /\ [][NextParse]_vars

(***************************************************************************)
(* SpecMatch: utils.get_most_similar_word on bounded terms and             *)
(* vocabularies.  A vocabulary is the keys of a dict: no entry twice.      *)
(***************************************************************************)
MaxVocabulary == 3

KyivLviv == Kyiv \o <<" ">> \o Lviv
LvivKyiv == Lviv \o <<" ">> \o Kyiv
KyivLvzzzz == Kyiv \o <<" ", "L", "v", "z", "z", "z", "z">>
Kyi == <<"K", "y", "i">>

MatchWords ==
    {None, StrV(<<>>), StrV(Kyiv), StrV(Lviv), StrV(Kyyiv), StrV(Zzz), StrV(Kyi),
     StrV(LvivKyiv), StrV(KyivLvzzzz)}

MatchVocabularies ==
    {v \in SeqsUpTo({Kyiv, Lviv, KyivLviv}, MaxVocabulary) :
        \A i, j \in 1..Len(v) : i # j => v[i] # v[j]}

InitMatch ==
    /\ pc = "call"
    /\ AtRest
    /\ args \in [word : MatchWords, vocabulary : MatchVocabularies]
    /\ outcome = None

Match ==
    /\ pc = "call"
    /\ outcome' = GetMostSimilarWord(args.word, args.vocabulary)
    /\ pc' = "called"
    /\ UNCHANGED <<args, mainVars, searchVars>>

NextMatch == Match

SpecMatch == InitMatch /\ [][NextMatch]_vars

(***************************************************************************)
(* SpecRegion: the region of a query through the matcher and through the   *)
(* filter of each adapter.                                                 *)
(***************************************************************************)
RegionQueries(region) ==
    [search : {"python"}, region : {region}, salary_from : {0, 10000}, salary_to : {0},
     experience : {<<>>, <<"No experience">>}]

InitRegion ==
    /\ pc = "match"
    /\ chat_id = "c1"
    /\ user_data = [c \in Chats |-> None]
    /\ args \in [word : MatchWords, vocabulary : MatchVocabularies]
    /\ params \in RegionQueries(args.word)
    /\ error = ""
    /\ inflight = None
    /\ http_log = <<>>
    /\ payload = <<>>
    /\ total_candidates = None
    /\ total_pages = None
    /\ html_pages = <<>>
    /\ hrefs = <<>>
    /\ resume_htmls = <<>>
    /\ origin = <<>>
    /\ work_outcome = "pending"
    /\ work_ua_results = <<>>
    /\ robota_payload = <<>>
    /\ robota_outcome = "pending"
    /\ robota_ua_results = <<>>
    /\ combined_results = <<>>
    /\ top_resumes = <<>>
    /\ sent = NoMessage
    /\ keyboards = NoKeyboards
    /\ Running
    /\ outcome = None

\* utils.get_most_similar_word(word, vocabulary)
MatchRegion ==
    /\ pc = "match"
    /\ outcome' = GetMostSimilarWord(args.word, args.vocabulary)
    /\ pc' = "query"
    /\ UNCHANGED <<args, mainVars, searchVars>>

NextRegion == MatchRegion \/ QueryWork \/ QueryRobota

SpecRegion == InitRegion /\ [][NextRegion]_vars

(***************************************************************************)
(* SpecScore: lines 372-388 of WorkUaParser.parse_resume, the filling      *)
(* percentage of a text, on every short text over a meaningful word, a     *)
(* stop word and a punctuation mark, and on some long texts.               *)
(***************************************************************************)
MaxTokens == 8

Repeat(w, n) == [i \in 1..n |-> w]

LongTexts ==
    {Repeat("python", 199) \o <<"the">>, Repeat("python", 200) \o <<",">>,
     Repeat("python", 198) \o <<"the", ",">>, Repeat("python", 23) \o Repeat("the", 17),
     Repeat("python", 109) \o Repeat(",", 91)}

ScoreTexts == SeqsUpTo({"python", "the", ","}, MaxTokens) \cup LongTexts

InitScore ==
    /\ pc = "call"
    /\ AtRest
    /\ args \in ScoreTexts
    /\ outcome = None

Score ==
    /\ pc = "call"
    /\ outcome' = IntV(FillingPercentage(args))
    /\ pc' = "called"
    /\ UNCHANGED <<args, mainVars, searchVars>>

NextScore == Score

SpecScore == InitScore /\ [][NextScore]_vars

(***************************************************************************)
(* SpecSession: the updates of two chats handled one after the other from  *)
(* the start of the bot: /start, /stop, /clear, /keywords, /region, a text *)
(* message, and /search up to the first request it sends.                  *)
(***************************************************************************)
\* the text of a message: as a string, and as the characters the matcher
\* compares
Texts ==
    {[str |-> "python", chars |-> <<"p", "y", "t", "h", "o", "n">>],
     [str |-> "Kyiv", chars |-> Kyiv]}

Parameters == {"/keywords", "/region"}

TextMessage(chat, text) == [kind |-> "text", chat_id |-> chat, text |-> text]

\* what no handler but /search changes, and with the keyboards what the
\* handlers of commands and texts leave alone
handlerVars ==
    <<pc, params, inflight, http_log, workLocals, workReturn, robotaVars,
      combined_results, top_resumes, mainVars, callVars>>
idleVars == <<handlerVars, keyboards>>

InitSession ==
    /\ pc = "idle"
    /\ chat_id = None
    /\ user_data = [c \in Chats |-> None]
    /\ params = None
    /\ error = ""
    /\ inflight = None
    /\ http_log = <<>>
    /\ payload = <<>>
    /\ total_candidates = None
    /\ total_pages = None
    /\ html_pages = <<>>
    /\ hrefs = <<>>
    /\ resume_htmls = <<>>
    /\ origin = <<>>
    /\ work_outcome = "pending"
    /\ work_ua_results = <<>>
    /\ robota_payload = <<>>
    /\ robota_outcome = "pending"
    /\ robota_ua_results = <<>>
    /\ combined_results = <<>>
    /\ top_resumes = <<>>
    /\ sent = NoMessage
    /\ keyboards = NoKeyboards
    /\ Running
    /\ NoCall

\* the session /start stores (lines 98-107)
StartSession ==
    Session([search |-> "", region |-> <<>>, salary_from |-> IntV(0),
             salary_to |-> IntV(0), experience |-> <<>>])

\* the session /clear stores (lines 146-155)
ClearSession ==
    Session([search |-> "", region |-> <<>>, salary_from |-> StrV(""),
             salary_to |-> StrV(""), experience |-> <<>>])

\* TelegramResumeBot.start
Start(chat) ==
    /\ pc = "idle"
    /\ chat_id' = chat
    /\ user_data' = [user_data EXCEPT ![chat] = StartSession]
    /\ sent' = TextMessage(chat, "Hello! I'm a bot and I can find suiting resumes according to parameters you've provided.")
    /\ error' = ""
    /\ UNCHANGED idleVars

\* a /stop that ends the session of every chat
StopEveryChat(chat) ==
    /\ pc = "idle"
    /\ chat_id' = chat
    /\ IF user_data[chat] = None
       THEN /\ error' = "KeyError"
            /\ UNCHANGED <<user_data, sent>>
       ELSE /\ user_data' = [c \in Chats |-> None]
            /\ sent' = TextMessage(chat, "Goodbye! Hope I was helpful.")
            /\ error' = ""
    /\ UNCHANGED idleVars

\* TelegramResumeBot.stop: dict.pop of a key the dict lacks raises KeyError
Stop(chat) ==
    /\ pc = "idle"
    /\ chat_id' = chat
    /\ IF user_data[chat] = None
       THEN /\ error' = "KeyError"
            /\ UNCHANGED <<user_data, sent>>
       ELSE /\ user_data' = [user_data EXCEPT ![chat] = None]
            /\ sent' = TextMessage(chat, "Goodbye! Hope I was helpful.")
            /\ error' = ""
    /\ UNCHANGED idleVars

\* TelegramResumeBot.clear
Clear(chat) ==
    /\ pc = "idle"
    /\ chat_id' = chat
    /\ user_data' = [user_data EXCEPT ![chat] = ClearSession]
    /\ sent' = TextMessage(chat, "All parameters cleared. Now you can provide new parameters.")
    /\ error' = ""
    /\ UNCHANGED idleVars

\* TelegramResumeBot.set_parameter: the prompt is sent, then the state is
\* stored, with a KeyError for a chat without a session
SetParameter(chat, command) ==
    /\ pc = "idle"
    /\ chat_id' = chat
    /\ sent' = TextMessage(chat, IF command = "/keywords"
                                 THEN "Please provide your search query."
                                 ELSE "Please provide your desired region.")
    /\ IF user_data[chat] = None
       THEN /\ error' = "KeyError"
            /\ UNCHANGED user_data
       ELSE /\ user_data' = [user_data EXCEPT ![chat].state =
                                IF command = "/keywords" THEN "asking_keywords"
                                ELSE "asking_region"]
            /\ error' = ""
    /\ UNCHANGED idleVars

\* accept_parameter taking a text for keywords in the state FREE as well
AcceptParameterWhenFree(chat, text) ==
    /\ pc = "idle"
    /\ chat_id' = chat
    /\ error' = ""
    /\ IF user_data[chat] = None
       THEN /\ sent' = TextMessage(chat, "Please type /start to make some request.")
            /\ UNCHANGED user_data
       ELSE LET state == user_data[chat].state
            IN  /\ sent' =
                      IF state \in {"free", "asking_keywords"}
                      THEN TextMessage(chat, "Search query set to: " \o text.str)
                      ELSE IF state = "asking_region"
                      THEN TextMessage(chat, "Region set to: " \o text.str)
                      ELSE sent
                /\ user_data' =
                      [user_data EXCEPT
                          ![chat].state = "free",
                          ![chat].search_options.search =
                              IF state \in {"free", "asking_keywords"} THEN text.str ELSE @,
                          ![chat].search_options.region =
                              IF state = "asking_region" THEN text.chars ELSE @]
    /\ UNCHANGED idleVars

\* TelegramResumeBot.accept_parameter: in a state other than the three
\* tested, no message is sent and the state becomes FREE
AcceptParameter(chat, text) ==
    /\ pc = "idle"
    /\ chat_id' = chat
    /\ error' = ""
    /\ IF user_data[chat] = None
       THEN /\ sent' = TextMessage(chat, "Please type /start to make some request.")
            /\ UNCHANGED user_data
       ELSE LET state == user_data[chat].state
            IN  /\ sent' =
                      IF state = "free"
                      THEN TextMessage(chat, "It seems like you're not choosing any parameter, type one of provided commands:/keywords, /region, /salary, /experience, /search, /clear")
                      ELSE IF state = "asking_keywords"
                      THEN TextMessage(chat, "Search query set to: " \o text.str)
                      ELSE IF state = "asking_region"
                      THEN TextMessage(chat, "Region set to: " \o text.str)
                      ELSE sent
                /\ user_data' =
                      [user_data EXCEPT
                          ![chat].state = "free",
                          ![chat].search_options.search =
                              IF state = "asking_keywords" THEN text.str ELSE @,
                          ![chat].search_options.region =
                              IF state = "asking_region" THEN text.chars ELSE @]
    /\ UNCHANGED idleVars

NextSession ==
    \/ \E chat \in Chats : Start(chat)
    \/ \E chat \in Chats : Stop(chat)
    \/ \E chat \in Chats : Clear(chat)
    \/ \E chat \in Chats, command \in Parameters : SetParameter(chat, command)
    \/ \E chat \in Chats, text \in Texts : AcceptParameter(chat, text)
    \/ \E chat \in Chats : BotSearch(chat)

SpecSession == InitSession /\ [][NextSession]_vars

(***************************************************************************)
(* SpecDialogue: the dialogues with inline keyboards.  Chat "c1" sends     *)
(* every command, text and button press; chat "c2" opens and closes its    *)
(* session in between.  A button can be pressed while the message that     *)
(* carries it is on display, whatever the chat did since.                  *)
(***************************************************************************)
MaxKeyboards == 2       \* SpecDialogue: most keyboards on display in a chat

\* telegram.InlineKeyboardButton, telegram.InlineKeyboardMarkup
InlineKeyboardButton(text, callback_data) ==
    [text |-> text, callback_data |-> callback_data]
InlineKeyboardMarkup(keyboard) ==
    [type |-> "InlineKeyboardMarkup", inline_keyboard |-> keyboard]

\* send_message with a keyboard; edit_message_text, which leaves the message
\* without keyboard when none is given
KeyboardMessage(chat, text, reply_markup) ==
    [kind |-> "text", chat_id |-> chat, text |-> text, reply_markup |-> reply_markup]
EditMessageText(chat, text, reply_markup) ==
    [kind |-> "edit", chat_id |-> chat, text |-> text, reply_markup |-> reply_markup]

\* the keyboards of /salary (lines 403-408) and of its first answer
\* (lines 439-444)
SalaryKeyboard(prefix, options) ==
    InlineKeyboardMarkup(
        [i \in 1..Len(options) |->
            <<InlineKeyboardButton(options[i].name, prefix \o Str(options[i].id))>>])

\* int(data.split(":")[1]) for the data of a button of SalaryKeyboard
SalaryChoice(prefix, options, data) ==
    CHOOSE n \in {options[i].id : i \in 1..Len(options)} : data = prefix \o Str(n)

\* data.startswith(prefix)
StartsWith(prefix, options, data) ==
    \E i \in 1..Len(options) : data = prefix \o Str(options[i].id)

\* one more or one fewer keyboard of a kind on display in a chat
Shown(chat, kind) == [keyboards EXCEPT ![chat][kind] = @ + 1]
Gone(chat, kind) == [keyboards EXCEPT ![chat][kind] = @ - 1]
OnDisplay(chat) ==
    keyboards[chat]["salary_from"] + keyboards[chat]["salary_to"]
        + keyboards[chat]["experience"]

\* TelegramResumeBot.salary: the state is stored first, with a KeyError for
\* a chat without a session
Salary(chat) ==
    /\ pc = "idle"
    /\ chat_id' = chat
    /\ IF user_data[chat] = None
       THEN /\ error' = "KeyError"
            /\ UNCHANGED <<user_data, sent, keyboards>>
       ELSE /\ OnDisplay(chat) < MaxKeyboards
            /\ user_data' = [user_data EXCEPT ![chat].state = "asking_salary_from"]
            /\ sent' = KeyboardMessage(chat, "Select the minimum salary:",
                          SalaryKeyboard("salary_from:", bot.SALARY_FROM_OPTIONS))
            /\ keyboards' = Shown(chat, "salary_from")
            /\ error' = ""
    /\ UNCHANGED handlerVars

\* TelegramResumeBot.salary_callback
SalaryCallback(chat, data) ==
    /\ pc = "idle"
    /\ chat_id' = chat
    /\ IF StartsWith("salary_from:", bot.SALARY_FROM_OPTIONS, data)
       THEN /\ keyboards[chat]["salary_from"] > 0
            /\ IF user_data[chat] = None
               THEN /\ error' = "KeyError"
                    /\ UNCHANGED <<user_data, sent, keyboards>>
               ELSE /\ user_data' =
                          [user_data EXCEPT
                              ![chat].search_options.salary_from =
                                  IntV(SalaryChoice("salary_from:", bot.SALARY_FROM_OPTIONS, data)),
                              ![chat].state = "asking_salary_to"]
                    /\ sent' = EditMessageText(chat, "Select the maximum salary:",
                                  SalaryKeyboard("salary_to:", bot.SALARY_TO_OPTIONS))
                    /\ keyboards' = [keyboards EXCEPT ![chat]["salary_from"] = @ - 1,
                                                      ![chat]["salary_to"] = @ + 1]
                    /\ error' = ""
       ELSE /\ StartsWith("salary_to:", bot.SALARY_TO_OPTIONS, data)
            /\ keyboards[chat]["salary_to"] > 0
            /\ IF user_data[chat] = None
               THEN /\ error' = "KeyError"
                    /\ UNCHANGED <<user_data, sent, keyboards>>
               ELSE /\ user_data' =
                          [user_data EXCEPT
                              ![chat].search_options.salary_to =
                                  IntV(SalaryChoice("salary_to:", bot.SALARY_TO_OPTIONS, data)),
                              ![chat].state = "free"]
                    /\ sent' = EditMessageText(chat, "Salary range set successfully.", None)
                    /\ keyboards' = Gone(chat, "salary_to")
                    /\ error' = ""
    /\ UNCHANGED handlerVars

\* the mark of a selected option, standing for U+2705 and a blank
Checked == "(selected) "

\* ", ".join(selected_experience) if selected_experience else "None"
RECURSIVE JoinComma(_)
JoinComma(selected_experience) ==
    IF selected_experience = <<>> THEN "None"
    ELSE IF Len(selected_experience) = 1 THEN selected_experience[1]
    ELSE selected_experience[1] \o ", " \o JoinComma(Tail(selected_experience))

\* x in list
Contains(list, x) == \E i \in 1..Len(list) : list[i] = x

\* TelegramResumeBot.__build_experience_keyboard over the mapping of
\* __get_experience_mapping, callback key -> label
BuildExperienceKeyboard(selected_experience) ==
    InlineKeyboardMarkup(
        [i \in 1..Len(bot.EXPERIENCE_OPTIONS) |->
            LET key == bot.EXPERIENCE_OPTIONS[i].id
                label == bot.EXPERIENCE_OPTIONS[i].name
            IN  <<InlineKeyboardButton(
                    IF Contains(selected_experience, label) THEN Checked \o label
                    ELSE label, key)>>]
        \o <<<<InlineKeyboardButton("Reset", "experience_reset"),
               InlineKeyboardButton("Complete", "experience_complete")>>>>)

\* list.remove of the first occurrence
RECURSIVE Remove(_, _)
Remove(list, x) ==
    IF list = <<>> THEN <<>>
    ELSE IF Head(list) = x THEN Tail(list)
    ELSE <<Head(list)>> \o Remove(Tail(list), x)

\* the toggle putting the option at the end of the selection in any case
ToggleOptionAppending(selected_experience, selected_option) ==
    Append(selected_experience, selected_option)

\* lines 340-344: the option is taken out of the selection or put at its end
ToggleOption(selected_experience, selected_option) ==
    IF Contains(selected_experience, selected_option)
    THEN Remove(selected_experience, selected_option)
    ELSE Append(selected_experience, selected_option)

\* experience_mapping[query.data]
SelectedOption(data) ==
    bot.EXPERIENCE_OPTIONS[CHOOSE i \in 1..Len(bot.EXPERIENCE_OPTIONS) :
                               bot.EXPERIENCE_OPTIONS[i].id = data].name

\* the callback data of the buttons of an experience keyboard
ExperienceData ==
    {bot.EXPERIENCE_OPTIONS[i].id : i \in 1..Len(bot.EXPERIENCE_OPTIONS)}
    \cup {"experience_reset", "experience_complete"}

\* TelegramResumeBot.experience: the keyboard is built from the stored
\* selection, with a KeyError for a chat without a session
Experience(chat) ==
    /\ pc = "idle"
    /\ chat_id' = chat
    /\ IF user_data[chat] = None
       THEN /\ error' = "KeyError"
            /\ UNCHANGED <<user_data, sent, keyboards>>
       ELSE /\ OnDisplay(chat) < MaxKeyboards
            /\ user_data' = [user_data EXCEPT ![chat].state = "asking_experience"]
            /\ sent' = KeyboardMessage(chat,
                          "Please choose your experience levels (you can select multiple):",
                          BuildExperienceKeyboard(user_data[chat].search_options.experience))
            /\ keyboards' = Shown(chat, "experience")
            /\ error' = ""
    /\ UNCHANGED handlerVars

\* TelegramResumeBot.experience_callback: selected_experience is the stored
\* list, which a toggle changes in place and a reset replaces
ExperienceCallback(chat, data) ==
    /\ pc = "idle"
    /\ keyboards[chat]["experience"] > 0
    /\ chat_id' = chat
    /\ IF user_data[chat] = None
       THEN /\ error' = "KeyError"
            /\ UNCHANGED <<user_data, sent, keyboards>>
       ELSE LET selected_experience == user_data[chat].search_options.experience
            IN  /\ error' = ""
                /\ IF data = "experience_complete"
                   THEN /\ user_data' = [user_data EXCEPT ![chat].state = "free"]
                        /\ sent' = EditMessageText(chat,
                                      "Experience selection completed: "
                                          \o JoinComma(selected_experience) \o ".", None)
                        /\ keyboards' = Gone(chat, "experience")
                   ELSE IF data = "experience_reset"
                   THEN /\ user_data' =
                              [user_data EXCEPT ![chat].search_options.experience = <<>>]
                        /\ sent' = EditMessageText(chat,
                                      "Experience options have been reset. Please select again.",
                                      BuildExperienceKeyboard(selected_experience))
                        /\ UNCHANGED keyboards
                   ELSE LET toggled == ToggleOption(selected_experience, SelectedOption(data))
                        IN  /\ user_data' =
                                  [user_data EXCEPT ![chat].search_options.experience = toggled]
                            /\ sent' = EditMessageText(chat,
                                          "Experience options selected: " \o JoinComma(toggled)
                                              \o "\nYou can toggle options, reset, or complete your selection.",
                                          BuildExperienceKeyboard(toggled))
                            /\ UNCHANGED keyboards
    /\ UNCHANGED handlerVars

\* the data of the buttons of the two salary keyboards
SalaryData ==
    {"salary_from:" \o Str(bot.SALARY_FROM_OPTIONS[i].id) :
        i \in 1..Len(bot.SALARY_FROM_OPTIONS)}
    \cup {"salary_to:" \o Str(bot.SALARY_TO_OPTIONS[i].id) :
        i \in 1..Len(bot.SALARY_TO_OPTIONS)}

\* the text chat "c1" sends
DialogueTexts == {text \in Texts : text.str = "python"}

\* no session, no keyboard, and "c1" the chat of the last update
InitDialogue ==
    /\ pc = "idle"
    /\ AtRest
    /\ NoCall

NextDialogue ==
    \/ \E chat \in Chats : Start(chat)
    \/ \E chat \in Chats : Stop(chat)
    \/ Clear("c1")
    \/ \E command \in Parameters : SetParameter("c1", command)
    \/ \E text \in DialogueTexts : AcceptParameter("c1", text)
    \/ Salary("c1")
    \/ \E data \in SalaryData : SalaryCallback("c1", data)
    \/ Experience("c1")
    \/ \E data \in ExperienceData : ExperienceCallback("c1", data)
    \/ BotSearch("c1")

SpecDialogue == InitDialogue /\ [][NextDialogue]_vars

(***************************************************************************)
(* Properties of the ranking (SpecRank).                                   *)
(***************************************************************************)
WithPercentage(s, p) == SelectSeq(s, LAMBDA r : r.filling_percentage = p)
Elements(s) == {s[i] : i \in 1..Len(s)}

\* C2: the ranked result holds the records of the scraping adapter followed
\* by those of the API adapter, reordered so that filling_percentage never
\* increases, and the records of one filling_percentage keep the order they
\* had in that concatenation.
RankedIsStableSort ==
    pc = "done" =>
        LET input == work_ua_results \o robota_ua_results
        IN  /\ Len(combined_results) = Len(input)
            /\ \A i \in 1..(Len(combined_results) - 1) :
                  combined_results[i].filling_percentage
                      >= combined_results[i + 1].filling_percentage
            /\ \A p \in RankPercentages :
                  WithPercentage(combined_results, p) = WithPercentage(input, p)

\* two different records of one filling_percentage, one of each adapter,
\* were ranked, and the input was not in order
RankedEqualPair ==
    /\ pc = "done"
    /\ \E i \in 1..Len(work_ua_results), j \in 1..Len(robota_ua_results) :
          /\ work_ua_results[i].filling_percentage
                 = robota_ua_results[j].filling_percentage
          /\ work_ua_results[i] # robota_ua_results[j]
    /\ combined_results # work_ua_results \o robota_ua_results

\* C3: the list delivered has exactly min(5, n) records, each a record of
\* the input, none more often than in the input, and no record left out has
\* a strictly higher filling_percentage than a record kept.
TopIsBest ==
    pc = "done" =>
        LET input == work_ua_results \o robota_ua_results
        IN  /\ Len(top_resumes) = Min(5, Len(input))
            /\ sent.kind = "results"
            /\ sent.resumes = [i \in 1..Len(top_resumes) |-> FormatResume(top_resumes[i])]
            /\ \A r \in Elements(top_resumes) :
                  /\ r \in Elements(input)
                  /\ Count(top_resumes, r) <= Count(input, r)
            /\ \A r \in Elements(input) :
                  Count(top_resumes, r) < Count(input, r) =>
                      \A k \in Elements(top_resumes) :
                          r.filling_percentage <= k.filling_percentage

\* more than five records were ranked, of both percentages
TopTruncated ==
    /\ pc = "done"
    /\ Len(work_ua_results) + Len(robota_ua_results) > 5
    /\ Len(top_resumes) = 5
    /\ \E i, j \in 1..Len(combined_results) :
          combined_results[i].filling_percentage
              # combined_results[j].filling_percentage

(***************************************************************************)
(* Properties of one /search (Spec).                                       *)
(***************************************************************************)
ListingLog == SelectSeq(http_log, LAMBDA r : r.kind = "listing")
DetailLog == SelectSeq(http_log, LAMBDA r : r.kind = "detail")
Failed(entry) == entry.reply = HttpError

\* C1: when exactly one adapter's search fails and the other returns at
\* least one record, the user still receives a non-empty ranked list of the
\* other adapter's records, and the chat's session is kept.
PartialFailureDelivers ==
    (\/ /\ work_outcome = "returned"
        /\ Len(work_ua_results) >= 1
        /\ robota_outcome = "raised"
     \/ /\ work_outcome = "raised"
        /\ robota_outcome = "returned"
        /\ Len(robota_ua_results) >= 1)
    => /\ sent.kind = "results"
       /\ sent.chat_id = chat_id
       /\ sent.resumes # <<>>
       /\ user_data[chat_id] # None

\* C4: every record the scraping adapter returns has the href base_url +
\* link of the very link whose detail page supplied the record's content.
RecordsKeyedByLink ==
    (work_outcome = "returned" /\ \A i \in 1..Len(DetailLog) : DetailLog[i].reply # EmptyBody) =>
        \A i \in 1..Len(work_ua_results) :
            work_ua_results[i].href = WORK_UA_URL \o origin[i]

\* the hrefs of log entries, in their order
HrefsOf(entries) == [i \in 1..Len(entries) |-> entries[i].href]

\* the detail fetches that did not fail, and those that gave a body that is
\* not empty
Succeeded == SelectSeq(DetailLog, LAMBDA e : ~Failed(e))
NonEmpty == SelectSeq(DetailLog, LAMBDA e : ~Failed(e) /\ Truthy(e.reply))

\* every link is requested once, in link order
DetailOnce ==
    /\ Len(DetailLog) <= Len(hrefs)
    /\ \A i \in 1..Len(DetailLog) :
          DetailLog[i].index = i /\ DetailLog[i].href = hrefs[i]
    /\ work_outcome = "returned" => Len(DetailLog) = Len(hrefs)

\* a failed detail fetch does not end the search with an exception
DetailFailureSwallowed ==
    (http_log # <<>> /\ http_log[Len(http_log)].kind = "detail"
     /\ Failed(http_log[Len(http_log)]))
    => work_outcome # "raised"

\* C5 as stated: a failing detail fetch is attempted once, never makes
\* search_resumes raise, and the records returned are those of the links
\* whose detail fetch succeeded, in link order.
DetailFailureDropsOneRecord ==
    /\ DetailOnce
    /\ DetailFailureSwallowed
    /\ work_outcome = "returned" =>
          /\ Len(work_ua_results) = Len(Succeeded)
          /\ origin = HrefsOf(Succeeded)

\* C5 amended: a failing detail fetch is attempted once, never makes
\* search_resumes raise, and the records returned are those of the links
\* whose detail fetch succeeded with a non-empty body, in link order.
DetailFailureOrEmptyDropsOneRecord ==
    /\ DetailOnce
    /\ DetailFailureSwallowed
    /\ work_outcome = "returned" =>
          /\ Len(work_ua_results) = Len(NonEmpty)
          /\ origin = HrefsOf(NonEmpty)

\* the search returned records although a detail fetch failed, the last one
\* among them
DetailFailureSurvived ==
    /\ work_outcome = "returned"
    /\ Len(work_ua_results) >= 1
    /\ Len(DetailLog) >= 2
    /\ Failed(DetailLog[Len(DetailLog)])
    /\ \E i \in 1..Len(DetailLog) : DetailLog[i].reply = EmptyBody

\* C6: a listing page whose fetch fails ends search_resumes with the
\* error: the request is not issued again, no other listing page and no
\* detail page is requested, and no record is returned.
ListingFailureIsFatal ==
    \A i \in 1..Len(http_log) :
        (http_log[i].kind = "listing" /\ Failed(http_log[i])) =>
            /\ i = Len(http_log)
            /\ inflight = None
            /\ pc = "raised"
            /\ error = "RequestException"
            /\ work_outcome = "raised"
            /\ work_ua_results = <<>>
            /\ DetailLog = <<>>
            /\ sent = NoMessage

\* a later listing page failed after pages with links had been fetched
LaterListingFailed ==
    /\ Len(http_log) >= 2
    /\ http_log[Len(http_log)].kind = "listing"
    /\ http_log[Len(http_log)].page > 1
    /\ Failed(http_log[Len(http_log)])
    /\ ExtendAll(html_pages) # <<>>

\* the least k with 14 * k >= t
CeilPages(t) == CHOOSE k \in 0..t : 14 * k >= t /\ \A j \in 0..(k - 1) : 14 * j < t

\* page 1, the even pages up to n ascending, the odd pages from 3 up to n
\* ascending
PageOrder(n) ==
    <<1>> \o SelectSeq([i \in 1..n |-> i], LAMBDA q : q % 2 = 0)
          \o SelectSeq([i \in 1..n |-> i], LAMBDA q : q % 2 = 1 /\ q >= 3)

\* C7: when every listing fetch succeeds and the first page reports T
\* candidates, the pages requested are 1, the even pages ascending and the
\* odd pages from 3 ascending, up to ceil(T/14), each once, and one HTML
\* document is returned per page requested.
AllPagesOnce ==
    (/\ ListingLog # <<>>
     /\ \A i \in 1..Len(ListingLog) : ~Failed(ListingLog[i])
     /\ GetTotalCandidates(ListingLog[1].reply).ok) =>
        LET t == GetTotalCandidates(ListingLog[1].reply).value
            order == PageOrder(CeilPages(t))
            requested == [i \in 1..Len(ListingLog) |-> ListingLog[i].page]
        IN  /\ Len(requested) <= Len(order)
            /\ requested = SubSeq(order, 1, Len(requested))
            /\ pc # "work_listing" => requested = order
            /\ html_pages = [i \in 1..Len(ListingLog) |-> ListingLog[i].reply]

\* four pages were requested, the last of them page 3
FourPagesFetched ==
    /\ pc # "work_listing"
    /\ Len(html_pages) = 4
    /\ [i \in 1..Len(ListingLog) |-> ListingLog[i].page] = <<1, 2, 4, 3>>

\* the text holds an integer directly followed by the marker
HasCount(text) ==
    \E i \in 1..(Len(text) - 1) : IsNum(text[i]) /\ IsMarker(text[i + 1])

\* C8: a first listing page without an integer followed by the marker ends
\* the scraping adapter's search with an error that reaches the caller,
\* before another listing page or a detail page is requested.
NoCountIsFatal ==
    (/\ http_log # <<>>
     /\ ~Failed(http_log[1])
     /\ ~HasCount(http_log[1].reply.text)) =>
        /\ Len(http_log) = 1
        /\ inflight = None
        /\ pc = "raised"
        /\ error = "Exception"
        /\ work_outcome = "raised"
        /\ work_ua_results = <<>>
        /\ sent = NoMessage

\* the first page came without a count, the marker being there
FirstPageWithoutCount ==
    /\ Len(http_log) = 1
    /\ ~Failed(http_log[1])
    /\ http_log[1].reply.text # <<>>
    /\ ~HasCount(http_log[1].reply.text)
    /\ pc = "raised"

InRange(resumes) ==
    \A i \in 1..Len(resumes) :
        resumes[i].filling_percentage >= 0 /\ resumes[i].filling_percentage <= 100

\* C9: every record an adapter returns, and every record of the ranked
\* output, has a filling_percentage within 0..100, whatever the document
\* or the API payload contains.
FillingPercentageInRange ==
    /\ InRange(work_ua_results)
    /\ pc = "done" => InRange(robota_ua_results) /\ InRange(combined_results)
                      /\ InRange(top_resumes)

(***************************************************************************)
(* Properties of the translation of a query (SpecQuery).                   *)
(***************************************************************************)
Resolves(region, vocabulary) ==
    /\ region # None
    /\ region.val # <<>>
    /\ GetMostSimilarWord(region, vocabulary) # None

KnownTags(tags, table) == SelectSeq(tags, LAMBDA e : HasKey(table, e))

\* C10: a region, experience tag or salary bound the adapter's vocabulary
\* does not resolve is left out of the outgoing filter and does not make
\* the request fail, in both adapters, whatever the other terms are.
UnresolvedTermsLeftOut ==
    pc = "query_done" =>
        /\ work_outcome = "returned"
        /\ robota_outcome = "returned"
        /\ "region" \in DOMAIN payload
              <=> Resolves(params.region, Keys(WORK_REGIONS))
        /\ "salaryfrom" \in DOMAIN payload
              <=> (params.salary_from # 0
                   /\ HasKey(WORK_SALARY_FROM_OPTIONS, Str(params.salary_from)))
        /\ "salaryto" \in DOMAIN payload
              <=> (params.salary_to # 0
                   /\ HasKey(WORK_SALARY_TO_OPTIONS, Str(params.salary_to)))
        /\ "experience" \in DOMAIN payload
              <=> KnownTags(params.experience, WORK_EXPERIENCE_OPTIONS) # <<>>
        /\ robota_payload.cityId # None
              <=> Resolves(params.region, Keys(ROBOTA_REGIONS))

(***************************************************************************)
(* Properties of the construction (SpecConstruct).                         *)
(***************************************************************************)
LoginLog == SelectSeq(http_log, LAMBDA r : r.kind = "login")

\* the login request was not answered with the status 200
LoginRefused(entry) == Failed(entry) \/ entry.reply.status # 200

\* C14: a login request that is not answered with success ends the
\* construction of the API adapter with an error after that one attempt:
\* no header is set, no vocabulary is loaded, and no adapter instance and
\* no bot come into existence.
LoginFailureIsFatal ==
    /\ Len(LoginLog) <= 1
    /\ \A i \in 1..Len(http_log) :
          (http_log[i].kind = "login" /\ LoginRefused(http_log[i])) =>
              /\ Len(http_log) = 1
              /\ inflight = None
              /\ pc = "raised"
              /\ error \in {"Exception", "RequestException"}
              /\ DOMAIN constructing = {"class"}
              /\ robota_ua_parser = None
              /\ bot = None

\* the login was answered with the status 401
LoginUnauthorized ==
    /\ pc = "raised"
    /\ Len(http_log) = 1
    /\ http_log[1].kind = "login"
    /\ ~Failed(http_log[1])
    /\ http_log[1].reply.status = 401

(***************************************************************************)
(* Properties of the API documents (SpecDocuments).                        *)
(***************************************************************************)
Lacks(doc, key) == key \notin DOMAIN doc \/ doc[key] = None

\* C11: a response whose documents lack, or have null, the salary or the
\* fields of an experience entry still gives one record per document, the
\* record of such a document having the field empty; search_resumes does
\* not raise.
MissingFieldsTolerated ==
    pc = "called" =>
        /\ outcome.ok
        /\ outcome.value # None
        /\ Len(outcome.value.val) = Len(args.body.documents)
        /\ \A i \in 1..Len(args.body.documents) :
              /\ Lacks(args.body.documents[i], "salary")
                     => outcome.value.val[i].salary_expectation = <<>>
              /\ Lacks(args.body.documents[i], "experience")
                     => outcome.value.val[i].experience = <<>>

(***************************************************************************)
(* Properties of the parse of a detail page (SpecParse).                   *)
(***************************************************************************)
\* the role headings that are directly followed by a details paragraph
RolesWithDetails(siblings) ==
    {i \in 1..(Len(siblings) - 1) : siblings[i].tag = "h2" /\ siblings[i + 1].tag = "p"}

\* C12: the parse of a detail page never raises; without the heading "Work
\* experience" the record has no experience entry and a filling percentage
\* within 0..100; with it, there is one entry for each role heading that has
\* its details paragraph, and none for a role heading without one.
MissingExperienceTolerated ==
    pc = "called" =>
        /\ args.work_experience = None
              => /\ outcome.ok
                 /\ outcome.value.experience = <<>>
                 /\ outcome.value.filling_percentage \in 0..100
        /\ (args.work_experience # None /\ outcome.ok)
              => Len(outcome.value.experience)
                     = Cardinality(RolesWithDetails(args.work_experience.val))

(***************************************************************************)
(* Properties of the API adapter's search (Spec).                          *)
(***************************************************************************)
RobotaLog == SelectSeq(http_log, LAMBDA r : r.kind \in {"robota_count", "robota_search"})
Unsuccessful(entry) == Failed(entry) \/ entry.reply.status \notin 200..299

\* C13: the API adapter's search_resumes ends with an error when one of its
\* two requests is not answered with a successful status, and when it
\* returns, it returns a list, which the handler ranks and delivers: it never
\* ends without a value.
RobotaListOrError ==
    /\ (\E i \in 1..Len(RobotaLog) : Unsuccessful(RobotaLog[i]))
           => robota_outcome = "raised"
    /\ robota_outcome = "returned"
           => /\ RobotaSearchResult(RobotaLog[Len(RobotaLog)].reply).value # None
              /\ pc = "done"
              /\ error = ""

(***************************************************************************)
(* Properties of the matcher (SpecMatch).                                  *)
(***************************************************************************)
Threshold == [num |-> WORD_SIMILARITY_THRESHOLD, den |-> 1]
EntryScore(i) == TokenSortRatio(args.word.val, args.vocabulary[i])

\* C15: the matcher returns an entry of the vocabulary whose score is
\* strictly above the threshold and which no entry outscores, and it returns
\* None when no entry scores above the threshold: a best score equal to the
\* threshold gives None.
MatchAboveThreshold ==
    pc = "called" =>
        IF outcome = None
        THEN args.word # None
                => \A i \in 1..Len(args.vocabulary) : ~ScoreGt(EntryScore(i), Threshold)
        ELSE \E i \in 1..Len(args.vocabulary) :
                /\ outcome = StrV(args.vocabulary[i])
                /\ ScoreGt(EntryScore(i), Threshold)
                /\ \A j \in 1..Len(args.vocabulary) : ~ScoreGt(EntryScore(j), EntryScore(i))

\* the matcher gave None for a term whose best entry scores exactly the
\* threshold
MatchAtThreshold ==
    /\ pc = "called"
    /\ outcome = None
    /\ args.word # None
    /\ \E i \in 1..Len(args.vocabulary) : EntryScore(i).num = WORD_SIMILARITY_THRESHOLD * EntryScore(i).den

(***************************************************************************)
(* Properties of an empty region (SpecRegion).                             *)
(***************************************************************************)
EmptyTerm(term) == term \in {None, StrV(<<>>)}

Meaningful(tokens) == Len(SelectSeq(tokens, LAMBDA w : w \in Alnum /\ w \notin StopWords))
Distance(a, b) == IF a >= b THEN a - b ELSE b - a

\* C17 as stated: the score of a text with t tokens, m of them meaningful,
\* is round(100*m/t) for t > 0 and 0 for t = 0; it is 0 for a text without a
\* meaningful token, 100 only when every token is meaningful, and within
\* 0..100.
ScoreIsRounded ==
    pc = "called" =>
        LET t == Len(args)
            m == Meaningful(args)
        IN  /\ t = 0 => outcome.val = 0
            /\ t > 0 => outcome.val = RoundHalfEven(100 * m, t)
            /\ m = 0 => outcome.val = 0
            /\ outcome.val = 100 => m = t
            /\ outcome.val \in 0..100

\* C17: the score of a text with t tokens, m of them meaningful, is an
\* integer nearest to 100*m/t for t > 0 and 0 for t = 0; it is 0 for a text
\* without a meaningful token, 100 when every token of a non-empty text is
\* meaningful and otherwise only when 100*m/t is at least 99.5, and within
\* 0..100.
ScoreIsNearest ==
    pc = "called" =>
        LET t == Len(args)
            m == Meaningful(args)
        IN  /\ t = 0 => outcome.val = 0
            /\ t > 0 => 2 * Distance(100 * m, t * outcome.val) <= t
            /\ m = 0 => outcome.val = 0
            /\ (t > 0 /\ m = t) => outcome.val = 100
            /\ outcome.val = 100 => 200 * m >= 199 * t
            /\ outcome.val \in 0..100

\* a text with a token that is not meaningful scored 100
ScoredHundredWithStopWord ==
    /\ pc = "called"
    /\ outcome.val = 100
    /\ Meaningful(args) < Len(args)

(***************************************************************************)
(* Properties of the salary of a scraped record (Spec).                    *)
(***************************************************************************)
CarriesSalary(html) == html.description # None /\ html.description.phrase

\* C18: a record the scraping adapter built from a detail page whose
\* Description carries "salary starting at X" has salary_expectation X.
SalaryPopulated ==
    work_outcome = "returned" =>
        \A i \in 1..Len(work_ua_results) : \A n \in 1..MaxLinks :
            (origin[i] = Href(n) /\ CarriesSalary(DetailPage(n)))
                => work_ua_results[i].salary_expectation = DetailPage(n).description.rest[1]

(***************************************************************************)
(* Properties of the sessions (SpecSession).                               *)
(***************************************************************************)
\* a /search of a chat with a session has been handled
Searched == pc # "idle" /\ user_data[chat_id] # None

\* C19: a /search of a chat whose stored keywords are empty is answered
\* with the request to provide keywords, raises nothing and calls no
\* adapter: no request is sent.
KeywordsRequired ==
    (Searched /\ user_data[chat_id].search_options.search = "")
        => /\ pc = "done"
           /\ sent = TextMessage(chat_id, "Please provide at least keywords.")
           /\ error = ""
           /\ inflight = None
           /\ work_outcome = "pending"
           /\ robota_outcome = "pending"

\* /clear has just been handled for the chat
Cleared ==
    /\ pc = "idle"
    /\ sent.kind = "text"
    /\ sent.text = "All parameters cleared. Now you can provide new parameters."

\* C20: after /clear the chat's session is the one /start installs: the
\* state FREE and the default parameters.
ClearRestoresDefaults ==
    Cleared => user_data[sent.chat_id] = StartSession

(***************************************************************************)
(* Properties of the dialogues (SpecDialogue).                             *)
(***************************************************************************)
\* C21: a text received in ASKING_KEYWORDS replaces the stored keywords and
\* nothing else, one received in ASKING_REGION replaces the stored region
\* and nothing else, both leave the chat in FREE, and a text received in
\* FREE changes no stored parameter.
TextReplacesOneParameter ==
    [][\A chat \in Chats, text \in Texts :
          (AcceptParameter(chat, text) /\ user_data[chat] # None)
              => LET before == user_data[chat]
                     after == user_data'[chat]
                 IN  /\ before.state = "asking_keywords"
                            => after = [before EXCEPT !.state = "free",
                                                      !.search_options.search = text.str]
                     /\ before.state = "asking_region"
                            => after = [before EXCEPT !.state = "free",
                                                      !.search_options.region = text.chars]
                     /\ before.state = "free"
                            => after.search_options = before.search_options]_vars

\* the keywords of a chat with a salary and an experience have been replaced
KeywordsReplaced ==
    /\ pc = "idle"
    /\ sent = TextMessage("c1", "Search query set to: python")
    /\ user_data["c1"] # None
    /\ user_data["c1"].state = "free"
    /\ user_data["c1"].search_options.search = "python"
    /\ user_data["c1"].search_options.salary_from.type = "int"
    /\ user_data["c1"].search_options.salary_from # StartSession.search_options.salary_from
    /\ user_data["c1"].search_options.experience # <<>>

\* C22: /salary puts the chat in ASKING_SALARY_FROM; a minimum is stored
\* only in ASKING_SALARY_FROM and leads to ASKING_SALARY_TO; a maximum is
\* stored only in ASKING_SALARY_TO and leads to FREE.
SalaryDialogueInOrder ==
    [][\A chat \in Chats :
          user_data[chat] # None
              => LET before == user_data[chat]
                     after == user_data'[chat]
                 IN  /\ Salary(chat) => after.state = "asking_salary_from"
                     /\ \A data \in SalaryData :
                            SalaryCallback(chat, data)
                                => IF StartsWith("salary_from:", bot.SALARY_FROM_OPTIONS, data)
                                   THEN /\ before.state = "asking_salary_from"
                                        /\ after.state = "asking_salary_to"
                                        /\ after.search_options.salary_from.type = "int"
                                   ELSE /\ before.state = "asking_salary_to"
                                        /\ after.state = "free"
                                        /\ after.search_options.salary_to.type = "int"]_vars

\* the options a selection holds
Options(selected_experience) ==
    {selected_experience[i] : i \in 1..Len(selected_experience)}

Marked(reply_markup) ==
    {bot.EXPERIENCE_OPTIONS[i].name : i \in
        {j \in 1..Len(bot.EXPERIENCE_OPTIONS) :
            \E r \in 1..Len(reply_markup.inline_keyboard) :
                \E b \in 1..Len(reply_markup.inline_keyboard[r]) :
                    reply_markup.inline_keyboard[r][b].text
                        = Checked \o bot.EXPERIENCE_OPTIONS[j].name}}

\* C24: after 'reset' the chat's stored selection is empty and the keyboard
\* of the reset message marks no option; after every press that leaves a
\* keyboard, the options the keyboard marks are the options stored.
KeyboardShowsSelection ==
    [][\A chat \in Chats, data \in ExperienceData \ {"experience_complete"} :
          (ExperienceCallback(chat, data) /\ user_data[chat] # None)
              => /\ Marked(sent'.reply_markup)
                        = Options(user_data'[chat].search_options.experience)
                 /\ data = "experience_reset"
                        => /\ user_data'[chat].search_options.experience = <<>>
                           /\ Marked(sent'.reply_markup) = {}]_vars

\* C25: a handler run for a chat without a session raises nothing; /start
\* and /clear give the chat a session, and every other handler leaves the
\* sessions as they are and sends the chat a message.
NoSessionHandled ==
    [][\A chat \in Chats :
          (chat_id' = chat /\ user_data[chat] = None)
              => /\ error' = ""
                 /\ pc' \in {"idle", "done"}
                 /\ IF Start(chat) \/ Clear(chat)
                    THEN user_data'[chat] # None
                    ELSE /\ user_data' = user_data
                         /\ sent'.kind = "text"
                         /\ sent'.chat_id = chat]_vars

\* C26: a handler run for a chat leaves the session of every other chat as
\* it is; a /search leaves every session as it is, the issuing chat's
\* included, and the query it hands to the adapters holds the chat's stored
\* parameters; while the search runs, neither the sessions nor the query
\* change.
SessionsIsolated ==
    [][/\ \A chat \in Chats :
            /\ chat_id' # chat => user_data'[chat] = user_data[chat]
            /\ BotSearch(chat)
                => /\ user_data' = user_data
                   /\ params' # None
                        => LET stored == user_data[chat].search_options
                           IN  /\ params'.search = stored.search
                               /\ params'.region = StrV(stored.region)
                               /\ IntV(params'.salary_from) = stored.salary_from
                               /\ IntV(params'.salary_to) = stored.salary_to
                               /\ params'.experience = stored.experience
       /\ pc # "idle" => UNCHANGED <<user_data, params>>]_vars

\* chat c1 has searched with parameters of its own while chat c2 has a
\* session
SearchedBesideSession ==
    /\ pc = "work_listing"
    /\ chat_id = "c1"
    /\ params # None
    /\ user_data["c2"] = StartSession
    /\ user_data["c1"] # None
    /\ user_data["c1"].search_options.experience # <<>>
    /\ user_data["c1"].search_options.salary_from # StartSession.search_options.salary_from

====
